---------------------------- MODULE Spec2Model ----------------------------
(***************************************************************************)
(* Compliance validation of haysnairpa/ocr-fe: the local validation of     *)
(* App.jsx (performLocalValidation with its matcher checkMatch, the        *)
(* aggregation and the report projection of validateAgainstLegalTerms) and *)
(* the exported validateAgainstLegalTerms of services/symbolService.js;    *)
(* the extraction of region texts, the three builders of requirement sets  *)
(* (processLegalTermFile of App.jsx, of services/symbolService.js and of   *)
(* services/legalValidationService.js), the endpoint table of config/      *)
(* apiConfig, and the handlers of App, IntegratedPage and                  *)
(* CombinedDetectionPage with their awaits as separate steps.              *)
(*                                                                         *)
(* JavaScript strings are TLA+ strings, the String methods the code calls  *)
(* are operators that compute what the methods compute, and JavaScript     *)
(* Numbers are IEEE-754 doubles computed bit for bit.                      *)
(***************************************************************************)
EXTENDS Integers, Sequences, FiniteSets, TLC

VARIABLES
  textResults,        \* argument textResults / ocrResults.results: the text regions
  symbolResults,      \* argument symbolResults / symbolResults.symbols: the detections
  legalTerms,         \* argument legalTerms: the requirement set
  validationData,     \* what performLocalValidation returned, Null before the call
  validationResults,  \* App state validationResults (transformedData), Null before
  svcResults,         \* what symbolService.validateAgainstLegalTerms returned
  returned,           \* the functions that have returned (on a page: since a handler last started)
  history,            \* the runs of performLocalValidation so far: arguments and verdicts
  legalTermFile,      \* the requirement source: a sheet, or the answer of the parser
  parsed,             \* what each processLegalTermFile called on it settled with
  detected,           \* what the component state holds as text and as symbol results
  error,              \* the error message each component shows, "" for null
  API_ENDPOINTS,      \* config/apiConfig: the endpoint of each key
  page,               \* the component that is mounted
  selectedFile,       \* its state selectedFile, "" for null
  previewUrl,         \* its state previewUrl: the file it is the data URL of, "" for null
  isLoading,          \* its state isLoading
  isValidating,       \* state isValidating of App
  processingStage,    \* its state processingStage, "" for null
  pending             \* the asynchronous work in flight: file readers, awaited calls

\* the state of the mounted component around its detection results
pageVars == <<page, selectedFile, previewUrl, isLoading, isValidating,
              processingStage, pending>>

vars == <<textResults, symbolResults, legalTerms, validationData,
          validationResults, svcResults, returned, history, legalTermFile,
          parsed, detected, error, API_ENDPOINTS, pageVars>>

\* null where an object is stored otherwise
Null == [null |-> TRUE]

\* ---------------------------------------------------------------------------
\* Bounds of the model
\* ---------------------------------------------------------------------------
\* rows of a requirement set and detections of an image, small-input specification
MaxRows == 2

MaxDetections == 2

\* requirements of one kind and how many of them the package lacks, bulk specification
MaxBulk == 16

MaxMissing == 3

\* runs of performLocalValidation in one session
MaxRuns == 3

\* updates of the backend URLs in one session
MaxUpdates == 3

\* ---------------------------------------------------------------------------
\* JavaScript String methods
\* ---------------------------------------------------------------------------
UpperChars == "ABCDEFGHIJKLMNOPQRSTUVWXYZ"

LowerChars == "abcdefghijklmnopqrstuvwxyz"

CharAt(s, i) == SubSeq(s, i, i)

LowerMap ==
  [c \in {CharAt(UpperChars, i) : i \in 1..Len(UpperChars)} |->
     CharAt(LowerChars, CHOOSE i \in 1..Len(UpperChars) : CharAt(UpperChars, i) = c)]

\* String.prototype.toLowerCase
RECURSIVE toLowerCase(_)
toLowerCase(s) ==
  IF s = "" THEN ""
  ELSE LET c == CharAt(s, 1)
       IN  (IF c \in DOMAIN LowerMap THEN LowerMap[c] ELSE c)
             \o toLowerCase(SubSeq(s, 2, Len(s)))

\* String.prototype.includes
includes(s, t) ==
  \E i \in 1..(Len(s) - Len(t) + 1) : SubSeq(s, i, i + Len(t) - 1) = t

\* the character classes of the regular expressions
WhiteSpace == {" ", "\t", "\n"}

UnderscoreHyphen == {"_", "-"}

\* s.split(/[\s_-]+/): the fields between the maximal runs of separators, an
\* empty first or last field included
RECURSIVE splitAt(_, _, _, _)
splitAt(s, i, cur, inRun) ==
  IF i > Len(s) THEN <<cur>>
  ELSE IF CharAt(s, i) \in WhiteSpace \cup UnderscoreHyphen
       THEN IF inRun THEN splitAt(s, i + 1, cur, TRUE)
            ELSE <<cur>> \o splitAt(s, i + 1, "", TRUE)
       ELSE splitAt(s, i + 1, cur \o CharAt(s, i), FALSE)

split(s) == splitAt(s, 1, "", FALSE)

\* s.replace(/[chars]+/g, by): every maximal run of chars becomes one by
RECURSIVE replaceRuns(_, _, _, _, _)
replaceRuns(s, chars, by, i, inRun) ==
  IF i > Len(s) THEN ""
  ELSE IF CharAt(s, i) \in chars
       THEN (IF inRun THEN "" ELSE by) \o replaceRuns(s, chars, by, i + 1, TRUE)
       ELSE CharAt(s, i) \o replaceRuns(s, chars, by, i + 1, FALSE)

\* mutant of the variants: the separators are left as they are
replaceKeep(s, chars, by) == s

replace(s, chars, by) == replaceRuns(s, chars, by, 1, FALSE)

\* words.filter(word => word.length > 2), as a set and as a sequence
Range(q) == {q[i] : i \in DOMAIN q}

longWords(s) == SelectSeq(split(s), LAMBDA w : Len(w) > 2)

\* ---------------------------------------------------------------------------
\* JavaScript Number arithmetic (IEEE-754 binary64, round to nearest, ties to
\* even).  A natural number of any size is a sequence of limbs, least
\* significant first, without leading zero limbs.  A Number v >= 0 is
\* [m |-> limbs, e |-> k] with value m * 2^k, where m has exactly MantBits
\* bits, or it is FZero.
\* ---------------------------------------------------------------------------
MantBits == 53

LimbBits == 6 + 6

RECURSIVE Pow2(_)
Pow2(n) == IF n = 0 THEN 1 ELSE 2 * Pow2(n - 1)

BASE == Pow2(LimbBits)

RECURSIVE BNorm(_)
BNorm(a) ==
  IF a = <<>> THEN <<>>
  ELSE IF a[Len(a)] = 0 THEN BNorm(SubSeq(a, 1, Len(a) - 1)) ELSE a

RECURSIVE BFromInt(_)
BFromInt(n) == IF n = 0 THEN <<>> ELSE <<n % BASE>> \o BFromInt(n \div BASE)

RECURSIVE BAddC(_, _, _)
BAddC(a, b, c) ==
  IF a = <<>> /\ b = <<>> THEN (IF c = 0 THEN <<>> ELSE <<c>>)
  ELSE LET x == IF a = <<>> THEN 0 ELSE Head(a)
           y == IF b = <<>> THEN 0 ELSE Head(b)
           s == x + y + c
       IN  <<s % BASE>> \o BAddC(IF a = <<>> THEN <<>> ELSE Tail(a),
                                 IF b = <<>> THEN <<>> ELSE Tail(b), s \div BASE)

BAdd(a, b) == BAddC(a, b, 0)

RECURSIVE BMulSmallC(_, _, _)
BMulSmallC(a, k, c) ==
  IF a = <<>> THEN BFromInt(c)
  ELSE LET s == Head(a) * k + c
       IN  <<s % BASE>> \o BMulSmallC(Tail(a), k, s \div BASE)

BMulSmall(a, k) == BNorm(BMulSmallC(a, k, 0))

RECURSIVE BMul(_, _)
BMul(a, b) ==
  IF a = <<>> \/ b = <<>> THEN <<>>
  ELSE BAdd(BMulSmall(a, Head(b)), 
            LET r == BMul(a, Tail(b)) IN IF r = <<>> THEN <<>> ELSE <<0>> \o r)

RECURSIVE BDivStep(_, _, _, _, _)
BDivStep(a, d, i, rem, acc) ==
  IF i = 0 THEN [q |-> BNorm(acc), r |-> rem]
  ELSE LET cur == rem * BASE + a[i]
       IN  BDivStep(a, d, i - 1, cur % d, <<cur \div d>> \o acc)

\* floor(a / d) and a mod d for a small divisor d (d * BASE must fit an int).
BDivSmall(a, d) == BDivStep(a, d, Len(a), 0, <<>>)

Zeros(n) == [i \in 1..n |-> 0]

BShl(a, n) ==
  IF a = <<>> THEN <<>>
  ELSE Zeros(n \div LimbBits) \o BMulSmall(a, Pow2(n % LimbBits))

BShr(a, n) ==
  IF n \div LimbBits >= Len(a) THEN <<>>
  ELSE BDivSmall(SubSeq(a, n \div LimbBits + 1, Len(a)), Pow2(n % LimbBits)).q

RECURSIVE IntBitLen(_)
IntBitLen(n) == IF n = 0 THEN 0 ELSE 1 + IntBitLen(n \div 2)

BBitLen(a) == IF a = <<>> THEN 0 ELSE (Len(a) - 1) * LimbBits + IntBitLen(a[Len(a)])

BBit(a, i) ==
  IF i \div LimbBits >= Len(a) THEN 0
  ELSE (a[i \div LimbBits + 1] \div Pow2(i % LimbBits)) % 2

\* some bit among the n lowest bits of a is set
BLowNonzero(a, n) ==
  \/ \E j \in 1..Len(a) : j <= n \div LimbBits /\ a[j] # 0
  \/ /\ n \div LimbBits < Len(a)
     /\ a[n \div LimbBits + 1] % Pow2(n % LimbBits) # 0

RECURSIVE BCmpAt(_, _, _)
BCmpAt(a, b, i) ==
  IF i = 0 THEN 0
  ELSE IF a[i] > b[i] THEN 1 ELSE IF a[i] < b[i] THEN 0 - 1 ELSE BCmpAt(a, b, i - 1)

BCmp(a, b) ==
  IF Len(a) > Len(b) THEN 1 ELSE IF Len(a) < Len(b) THEN 0 - 1 ELSE BCmpAt(a, b, Len(a))

FZero == [m |-> <<>>, e |-> 0]

\* the Number nearest to a * 2^e (+ a nonzero tail below the last bit of a when
\* sticky), ties to even
FRound(a, e, sticky) ==
  IF a = <<>> THEN FZero
  ELSE LET L == BBitLen(a) IN
    IF L <= MantBits THEN [m |-> BShl(a, MantBits - L), e |-> e - (MantBits - L)]
    ELSE LET s    == L - MantBits
             q    == BShr(a, s)
             half == BBit(a, s - 1) = 1
             rest == sticky \/ BLowNonzero(a, s - 1)
             up   == half /\ (rest \/ BBit(q, 0) = 1)
             q1   == IF up THEN BAdd(q, <<1>>) ELSE q
         IN  IF BBitLen(q1) > MantBits
             THEN [m |-> BShr(q1, 1), e |-> e + s + 1]
             ELSE [m |-> q1, e |-> e + s]

\* n / d on two non-negative integers, d > 0
FDiv(n, d) ==
  IF n = 0 THEN FZero
  ELSE LET K  == MantBits + LimbBits + IntBitLen(d)
           qr == BDivSmall(BShl(BFromInt(n), K), d)
       IN  FRound(qr.q, 0 - K, qr.r # 0)

FMul(x, y) ==
  IF x.m = <<>> \/ y.m = <<>> THEN FZero
  ELSE FRound(BMul(x.m, y.m), x.e + y.e, FALSE)

FAdd(x, y) ==
  IF x.m = <<>> THEN y
  ELSE IF y.m = <<>> THEN x
  ELSE LET e == IF x.e < y.e THEN x.e ELSE y.e
       IN  FRound(BAdd(BShl(x.m, x.e - e), BShl(y.m, y.e - e)), e, FALSE)

FGeq(x, y) ==
  IF y.m = <<>> THEN TRUE
  ELSE IF x.m = <<>> THEN FALSE
  ELSE IF x.e # y.e THEN x.e > y.e
  ELSE BCmp(x.m, y.m) >= 0

FOne == FDiv(1, 1)

\* ---------------------------------------------------------------------------
\* App.jsx, performLocalValidation: the evidence
\* ---------------------------------------------------------------------------
\* a detection without a class, a region without text and a requirement without
\* a field carry "" there: the code tests these fields for truthiness only

\* detectedSymbolClasses: the keys of the object, lines 607-633
detectedSymbolClasses(symbols) ==
  UNION { LET className == toLowerCase(symbols[i].class)
          IN  IF className = "" THEN {}
              ELSE { className,
                     replace(className, WhiteSpace, "_"),
                     replace(className, UnderscoreHyphen, " ") }
          : i \in DOMAIN symbols }

\* symbolKeywords, lines 608-623
symbolKeywords(symbols) ==
  UNION { Range(longWords(toLowerCase(symbols[i].class))) : i \in DOMAIN symbols }

RECURSIVE detectedTexts(_)
\* detectedTexts, lines 638-656
detectedTexts(texts) ==
  IF texts = <<>> THEN <<>>
  ELSE (IF Head(texts).text # "" THEN <<toLowerCase(Head(texts).text)>> ELSE <<>>)
         \o detectedTexts(Tail(texts))

\* mutant of textKeywords: the keyword set outlives the run and is never cleared
textKeywordsKept(texts) ==
  UNION { Range(longWords(toLowerCase(texts[i].text))) : i \in DOMAIN texts }
    \cup UNION { UNION { Range(longWords(toLowerCase(history[r].texts[i].text))) :
                           i \in DOMAIN history[r].texts } : r \in DOMAIN history }

\* textKeywords, lines 639-653
textKeywords(texts) ==
  UNION { Range(longWords(toLowerCase(texts[i].text))) : i \in DOMAIN texts }

\* the names every JavaScript object inherits from Object.prototype that a
\* lowercased key can spell: symbolClasses[key] is truthy for them as well
InheritedKeys == {"constructor", "__proto__"}

\* symbolClasses[key], lines 677, 686, 691
hasTruthy(symbolClasses, key) == key \in symbolClasses \/ key \in InheritedKeys

\* mutant of matchCount: a key of symbolClasses that contains no target word
\* takes one away
matchCountDiluted(targetWords, sourceKeywords, symbolClasses) ==
  LET gained == Cardinality({ i \in DOMAIN targetWords : targetWords[i] \in sourceKeywords })
                  + Cardinality({ k \in symbolClasses :
                                    \E i \in DOMAIN targetWords : includes(k, targetWords[i]) })
      lost   == Cardinality({ k \in symbolClasses :
                                \A i \in DOMAIN targetWords : ~includes(k, targetWords[i]) })
  IN  IF gained > lost THEN gained - lost ELSE 0

\* matchCount, lines 703-723: one for every target word among the source
\* keywords, and one more for every key of symbolClasses that contains some
\* target word
matchCount(targetWords, sourceKeywords, symbolClasses) ==
  Cardinality({ i \in DOMAIN targetWords : targetWords[i] \in sourceKeywords })
    + Cardinality({ k \in symbolClasses :
                      \E i \in DOMAIN targetWords : includes(k, targetWords[i]) })

\* the keyword step of checkMatch, lines 696-729
keywordMatch(targetLower, sourceKeywords, symbolClasses) ==
  LET targetWords == longWords(targetLower)
      count       == matchCount(targetWords, sourceKeywords, symbolClasses)
      matchRatio  == IF count > 0 THEN FDiv(count, Len(targetWords)) ELSE FZero
  IN  IF Len(targetWords) = 0 THEN FALSE ELSE FGeq(matchRatio, FDiv(2, 5))

\* checkMatch from its first step on, lines 667-729, on the lowercased target
matchSteps(targetLower, sourceTexts, sourceKeywords, symbolClasses) ==
  LET targetWithUnderscore == replace(targetLower, WhiteSpace, "_")
      targetWithSpace      == replace(targetLower, UnderscoreHyphen, " ")
  IN  IF \E i \in DOMAIN sourceTexts : includes(sourceTexts[i], targetLower)
        THEN TRUE
      ELSE IF hasTruthy(symbolClasses, targetLower) THEN TRUE
      ELSE IF hasTruthy(symbolClasses, targetWithUnderscore) THEN TRUE
      ELSE IF hasTruthy(symbolClasses, targetWithSpace) THEN TRUE
      ELSE keywordMatch(targetLower, sourceKeywords, symbolClasses)

\* mutant of checkMatch: the target is compared as it is written
checkMatchCaseSensitive(targetText, sourceTexts, sourceKeywords, symbolClasses) ==
  IF targetText = "" THEN FALSE
  ELSE matchSteps(targetText, sourceTexts, sourceKeywords, symbolClasses)

\* checkMatch, lines 661-730
checkMatch(targetText, sourceTexts, sourceKeywords, symbolClasses) ==
  IF targetText = "" THEN FALSE
  ELSE matchSteps(toLowerCase(targetText), sourceTexts, sourceKeywords, symbolClasses)

\* ---------------------------------------------------------------------------
\* App.jsx, performLocalValidation: the verdicts
\* ---------------------------------------------------------------------------
\* a || b on two strings
orElse(a, b) == IF a # "" THEN a ELSE b

\* textValidations, lines 732-744
textValidations(legal, texts, symbols) ==
  LET sourceTexts    == detectedTexts(texts)
      sourceKeywords == textKeywords(texts)
      symbolClasses  == detectedSymbolClasses(symbols)
  IN  [ n \in DOMAIN legal.required_texts |->
          LET reqText == legal.required_texts[n]
              pattern == orElse(reqText.pattern, reqText.description)
          IN  [ id          |-> orElse(reqText.id, "text_" \o ToString(n - 1)),
                description |-> orElse(reqText.description, pattern),
                required    |-> reqText.required # FALSE,
                found       |-> checkMatch(pattern, sourceTexts, sourceKeywords,
                                           symbolClasses) ] ]

\* the direct search of the symbol loop, lines 751-788
directSymbolMatch(symbolClass, symbols) ==
  LET lower == toLowerCase(symbolClass)
      isAgeGrade ==
        includes(lower, "age") \/ includes(lower, "grade") \/ includes(lower, "3+")
      isSmallPartWarning ==
        includes(lower, "small") \/ includes(lower, "part") \/ includes(lower, "warning")
  IN  \E i \in DOMAIN symbols :
        LET detectedClass == toLowerCase(symbols[i].class)
        IN  \/ detectedClass = lower
            \/ /\ isAgeGrade
               /\ \/ includes(detectedClass, "age")
                  \/ includes(detectedClass, "grade")
                  \/ includes(detectedClass, "3+")
            \/ /\ isSmallPartWarning
               /\ \/ includes(detectedClass, "small")
                  \/ includes(detectedClass, "part")
                  \/ includes(detectedClass, "warning")

\* symbolValidations, lines 746-801
symbolValidations(legal, texts, symbols) ==
  LET sourceTexts    == detectedTexts(texts)
      sourceKeywords == symbolKeywords(symbols)
      symbolClasses  == detectedSymbolClasses(symbols)
  IN  [ n \in DOMAIN legal.required_symbols |->
          LET reqSymbol   == legal.required_symbols[n]
              symbolClass == orElse(reqSymbol.class, reqSymbol.description)
          IN  [ id          |-> orElse(reqSymbol.id, "symbol_" \o ToString(n - 1)),
                description |-> orElse(reqSymbol.description, symbolClass),
                required    |-> reqSymbol.required # FALSE,
                found       |->
                  \/ directSymbolMatch(symbolClass, symbols)
                  \/ checkMatch(symbolClass, sourceTexts, sourceKeywords,
                                symbolClasses) ] ]

\* layoutValidations, lines 803-813
layoutValidations(legal) ==
  [ n \in DOMAIN legal.layout_requirements |->
      LET layoutReq == legal.layout_requirements[n]
      IN  [ id          |-> orElse(layoutReq.id, "layout_" \o ToString(n - 1)),
            description |-> layoutReq.description,
            rule        |-> orElse(layoutReq.rule, "position"),
            valid       |-> TRUE ] ]

\* ---------------------------------------------------------------------------
\* App.jsx, performLocalValidation: the aggregation
\* ---------------------------------------------------------------------------
\* mutant of requiredCompliance: the optional verdicts are counted as well
allCompliance(validations) ==
  IF Len(validations) > 0
  THEN FDiv(Len(SelectSeq(validations, LAMBDA v : v.found)), Len(validations))
  ELSE FOne

\* mutant of the ratio: a category without required items scores 0
requiredComplianceVacuousZero(validations) ==
  LET required      == SelectSeq(validations, LAMBDA v : v.required)
      foundRequired == SelectSeq(required, LAMBDA v : v.found)
  IN  IF Len(required) > 0 THEN FDiv(Len(foundRequired), Len(required)) ELSE FZero

\* textCompliance and symbolCompliance, lines 816-823
requiredCompliance(validations) ==
  LET required      == SelectSeq(validations, LAMBDA v : v.required)
      foundRequired == SelectSeq(required, LAMBDA v : v.found)
  IN  IF Len(required) > 0 THEN FDiv(Len(foundRequired), Len(required)) ELSE FOne

\* mutant of layoutCompliance: the ratio of the stubbed verdicts as a constant
layoutComplianceConstant(validations) == FOne

\* layoutCompliance, lines 824-825
layoutCompliance(validations) ==
  IF Len(validations) > 0
  THEN FDiv(Len(SelectSeq(validations, LAMBDA v : v.valid)), Len(validations))
  ELSE FOne

\* weights, lines 828-832
weights == [text |-> FDiv(2, 5), symbol |-> FDiv(2, 5), layout |-> FDiv(1, 5)]

\* overallCompliance, lines 834-838
overallCompliance(text, symbol, layout) ==
  FAdd(FAdd(FMul(text, weights.text), FMul(symbol, weights.symbol)),
       FMul(layout, weights.layout))

\* passed, line 841
passed(overall) == FGeq(overall, FDiv(9, 10))

\* performLocalValidation, lines 603-868
performLocalValidation(texts, symbols, legal) ==
  LET tv      == textValidations(legal, texts, symbols)
      sv      == symbolValidations(legal, texts, symbols)
      lv      == layoutValidations(legal)
      text    == requiredCompliance(tv)
      symbol  == requiredCompliance(sv)
      layout  == layoutCompliance(lv)
      overall == overallCompliance(text, symbol, layout)
  IN  [ text_validations   |-> tv,
        symbol_validations |-> sv,
        layout_validations |-> lv,
        compliance |-> [text |-> text, symbol |-> symbol,
                        layout |-> layout, overall |-> overall],
        passed |-> passed(overall) ]

\* mutant of transformedData: valid copies found
transformedDataFound(data) ==
  [ is_compliant       |-> data.passed,
    compliance_message |-> IF data.passed THEN "All legal requirements are met."
                           ELSE "Some legal requirements are not met.",
    term_validations   |->
      [ n \in DOMAIN data.text_validations |->
          LET item == data.text_validations[n]
          IN  [term |-> item.description, required |-> item.required,
               found |-> item.found, valid |-> item.found] ],
    symbol_validations |->
      [ n \in DOMAIN data.symbol_validations |->
          LET item == data.symbol_validations[n]
          IN  [symbol |-> item.description, required |-> item.required,
               found |-> item.found, valid |-> item.found] ],
    layout_validations |->
      [ n \in DOMAIN data.layout_validations |->
          LET item == data.layout_validations[n]
          IN  [rule |-> item.rule, description |-> item.description,
               valid |-> item.valid] ] ]

\* mutant of transformedData: only the verdicts of required items are reported
transformedDataRequiredOnly(data) ==
  [ is_compliant       |-> data.passed,
    compliance_message |-> IF data.passed THEN "All legal requirements are met."
                           ELSE "Some legal requirements are not met.",
    term_validations   |->
      LET kept == SelectSeq(data.text_validations, LAMBDA v : v.required)
      IN  [ n \in DOMAIN kept |->
              [term |-> kept[n].description, required |-> kept[n].required,
               found |-> kept[n].found, valid |-> kept[n].found] ],
    symbol_validations |->
      LET kept == SelectSeq(data.symbol_validations, LAMBDA v : v.required)
      IN  [ n \in DOMAIN kept |->
              [symbol |-> kept[n].description, required |-> kept[n].required,
               found |-> kept[n].found, valid |-> kept[n].found] ],
    layout_validations |->
      [ n \in DOMAIN data.layout_validations |->
          LET item == data.layout_validations[n]
          IN  [rule |-> item.rule, description |-> item.description,
               valid |-> item.valid] ] ]

\* transformedData of validateAgainstLegalTerms, lines 564-587
transformedData(data) ==
  [ is_compliant       |-> data.passed,
    compliance_message |-> IF data.passed THEN "All legal requirements are met."
                           ELSE "Some legal requirements are not met.",
    term_validations   |->
      [ n \in DOMAIN data.text_validations |->
          LET item == data.text_validations[n]
          IN  [term |-> item.description, required |-> item.required,
               found |-> item.found,
               valid |-> IF item.required THEN item.found ELSE TRUE] ],
    symbol_validations |->
      [ n \in DOMAIN data.symbol_validations |->
          LET item == data.symbol_validations[n]
          IN  [symbol |-> item.description, required |-> item.required,
               found |-> item.found,
               valid |-> IF item.required THEN item.found ELSE TRUE] ],
    layout_validations |->
      [ n \in DOMAIN data.layout_validations |->
          LET item == data.layout_validations[n]
          IN  [rule |-> item.rule, description |-> item.description,
               valid |-> item.valid] ] ]

\* ---------------------------------------------------------------------------
\* services/symbolService.js, validateAgainstLegalTerms
\* ---------------------------------------------------------------------------
\* text_validations, lines 457-481
svcTextValidations(legal, texts) ==
  [ n \in DOMAIN legal.required_texts |->
      LET requiredText == legal.required_texts[n]
          pattern      == toLowerCase(requiredText.pattern)
          found        == \E i \in DOMAIN texts :
                            /\ texts[i].text # ""
                            /\ includes(toLowerCase(texts[i].text), pattern)
      IN  [ id          |-> requiredText.id,
            description |-> requiredText.description,
            pattern     |-> requiredText.pattern,
            required    |-> requiredText.required,
            valid       |-> found \/ ~requiredText.required ] ]

\* symbol_validations, lines 483-507
svcSymbolValidations(legal, symbols) ==
  [ n \in DOMAIN legal.required_symbols |->
      LET requiredSymbol == legal.required_symbols[n]
          symbolClass    == toLowerCase(requiredSymbol.class)
          found          == \E i \in DOMAIN symbols :
                              /\ symbols[i].class # ""
                              /\ toLowerCase(symbols[i].class) = symbolClass
      IN  [ id          |-> requiredSymbol.id,
            description |-> requiredSymbol.description,
            class       |-> requiredSymbol.class,
            required    |-> requiredSymbol.required,
            valid       |-> found \/ ~requiredSymbol.required ] ]

\* layout_validations, lines 509-522
svcLayoutValidations(legal) ==
  [ n \in DOMAIN legal.layout_requirements |->
      LET layoutRequirement == legal.layout_requirements[n]
      IN  [ id          |-> layoutRequirement.id,
            description |-> layoutRequirement.description,
            rule        |-> layoutRequirement.rule,
            required    |-> layoutRequirement.required,
            valid       |-> TRUE ] ]

\* validateAgainstLegalTerms of symbolService.js, lines 450-525
svcValidateAgainstLegalTerms(texts, symbols, legal) ==
  [ text_validations   |-> svcTextValidations(legal, texts),
    symbol_validations |-> svcSymbolValidations(legal, symbols),
    layout_validations |-> svcLayoutValidations(legal) ]


\* ---------------------------------------------------------------------------
\* App.jsx, handleSubmit, and services/ocrService.js, detectText: the text of a
\* region
\* ---------------------------------------------------------------------------
\* one result of the text detection service: its text ("" when it has none),
\* its lines and its words (strings) when it has them, its id when it has one
RawResult(text, hasLines, lines, hasWords, words, hasId, id) ==
  [text |-> text, hasLines |-> hasLines, lines |-> lines, hasWords |-> hasWords,
   words |-> words, hasId |-> hasId, id |-> id]

RECURSIVE join(_, _)
\* Array.prototype.join
join(items, separator) ==
  IF items = <<>> THEN ""
  ELSE IF Len(items) = 1 THEN items[1]
  ELSE items[1] \o separator \o join(Tail(items), separator)

\* extractedText of the result at position n (index n - 1), App.jsx lines 209-253
extractedText(result, n) ==
  LET read == IF result.text # "" THEN result.text
              ELSE IF result.hasLines THEN join(result.lines, " ")
              ELSE IF result.hasWords THEN join(result.words, " ")
              ELSE ""
  IN  IF read # "" THEN read
      ELSE IF result.hasId THEN "Region " \o ToString(result.id)
      ELSE "Region " \o ToString(n)

\* extractedResults, App.jsx lines 205-260
extractedResults(results) ==
  [ n \in DOMAIN results |-> [results[n] EXCEPT !.text = extractedText(results[n], n)] ]

\* ---------------------------------------------------------------------------
\* App.jsx and services/symbolService.js, processLegalTermFile: the requirement
\* set of a spreadsheet
\* ---------------------------------------------------------------------------
\* one row of the sheet under the headers Item, Symbol, Description, Required
\* and Type; "" is a blank cell, which sheet_to_json leaves out of the row
Row(item, symbol, description, required, type) ==
  [item |-> item, symbol |-> symbol, description |-> description,
   required |-> required, type |-> type]

\* the columns found: Object.keys of the first row, App.jsx lines 318-353
columns(rows) ==
  [ c \in {"item", "symbol", "description", "required", "type"} |->
      rows # <<>> /\ rows[1][c] # "" ]

\* the cell of a row under the first column of a kind, '' without such a column
cell(row, cols, c) == IF cols[c] THEN row[c] ELSE ""

\* required of a row, App.jsx lines 378-380
requiredOf(row, cols) == IF cols["required"] THEN row["required"] # "false" ELSE TRUE

NoRequirement == [required_texts |-> <<>>, required_symbols |-> <<>>, layout_requirements |-> <<>>]

\* what the row at position n (index n - 1) adds to the three lists,
\* App.jsx lines 367-466
appRow(row, n, cols) ==
  LET index       == ToString(n - 1)
      item        == cell(row, cols, "item")
      symbol      == cell(row, cols, "symbol")
      description == cell(row, cols, "description")
      required    == requiredOf(row, cols)
      type        == toLowerCase(cell(row, cols, "type"))
      textReq     == [id |-> "text_" \o index, description |-> orElse(item, description),
                      pattern |-> orElse(item, description), required |-> required]
      symbolReq   == [id |-> "symbol_" \o index, description |-> orElse(item, description),
                      class |-> toLowerCase(orElse(symbol, item)), required |-> required]
      position    == includes(description, "must be") \/ includes(description, "should be")
      isTextRequirement ==
        \/ \E word \in {"Warning", "Trademark", "Country", "Origin", "Age", "Grade"} :
             includes(item, word)
        \/ \E word \in {"text", "statement", "warning"} : includes(description, word)
  IN  IF type # ""
      THEN IF includes(type, "text")
             THEN [NoRequirement EXCEPT !.required_texts = <<textReq>>]
           ELSE IF includes(type, "symbol")
             THEN [NoRequirement EXCEPT !.required_symbols = <<symbolReq>>]
           ELSE IF includes(type, "layout")
             THEN [NoRequirement EXCEPT !.layout_requirements =
                     << [id |-> "layout_" \o index,
                         description |-> orElse(description, item),
                         element_id |-> "", rule |-> "position", parameters |-> "{}"] >>]
           ELSE NoRequirement
      ELSE IF symbol # "" /\ symbol \notin {"#UNKNOWN", "undefined", "null"}
             THEN [NoRequirement EXCEPT
                     !.required_symbols = <<symbolReq>>,
                     !.layout_requirements =
                       IF position
                       THEN << [id |-> "layout_symbol_" \o index, description |-> description,
                                element_id |-> "symbol_" \o index, rule |-> "position",
                                parameters |-> "{}"] >>
                       ELSE <<>>]
           ELSE IF (item # "" \/ description # "") /\ isTextRequirement
             THEN [NoRequirement EXCEPT
                     !.required_texts = <<textReq>>,
                     !.layout_requirements =
                       IF position
                       THEN << [id |-> "layout_" \o index, description |-> description,
                                element_id |-> "text_" \o index, rule |-> "position",
                                parameters |-> "{}"] >>
                       ELSE <<>>]
           ELSE NoRequirement

\* what the row at position n adds, symbolService.js lines 367-425
svcRow(row, n, cols) ==
  LET index       == ToString(n - 1)
      item        == cell(row, cols, "item")
      symbol      == cell(row, cols, "symbol")
      description == cell(row, cols, "description")
      required    == requiredOf(row, cols)
      type        == toLowerCase(cell(row, cols, "type"))
  IN  IF type # ""
      THEN IF includes(type, "text")
             THEN [NoRequirement EXCEPT !.required_texts =
                     << [id |-> "text_" \o index, description |-> orElse(item, description),
                         pattern |-> orElse(item, description), required |-> required] >>]
           ELSE IF includes(type, "symbol")
             THEN [NoRequirement EXCEPT !.required_symbols =
                     << [id |-> "symbol_" \o index, description |-> orElse(item, description),
                         class |-> toLowerCase(orElse(symbol, item)),
                         required |-> required] >>]
           ELSE IF includes(type, "layout")
             THEN [NoRequirement EXCEPT !.layout_requirements =
                     << [id |-> "layout_" \o index, description |-> orElse(item, description),
                         rule |-> orElse(item, description), required |-> required] >>]
           ELSE NoRequirement
      ELSE IF symbol # ""
             THEN [NoRequirement EXCEPT !.required_symbols =
                     << [id |-> "symbol_" \o index, description |-> orElse(description, item),
                         class |-> toLowerCase(symbol), required |-> required] >>]
           ELSE [NoRequirement EXCEPT !.required_texts =
                     << [id |-> "text_" \o index, description |-> orElse(description, item),
                         pattern |-> item, required |-> required] >>]

RECURSIVE pushed(_, _)
\* the list a forEach over the rows has pushed to
pushed(parts, list) ==
  IF parts = <<>> THEN <<>> ELSE Head(parts)[list] \o pushed(Tail(parts), list)

\* the requirement set of the parts the rows add
legalTermsOf(parts) ==
  [ required_texts      |-> pushed(parts, "required_texts"),
    required_symbols    |-> pushed(parts, "required_symbols"),
    layout_requirements |-> pushed(parts, "layout_requirements") ]

\* how a promise settles
Resolved(value) == [settled |-> "resolved", legalTerms |-> value]

Rejected == [settled |-> "rejected"]

\* processLegalTermFile of App.jsx, lines 303-485: XLSX.read throws on a file it
\* cannot read, and the promise is rejected
processLegalTermFile(file) ==
  IF ~file.readable THEN Rejected
  ELSE Resolved(legalTermsOf([ n \in DOMAIN file.rows |->
                                 appRow(file.rows[n], n, columns(file.rows)) ]))

\* processLegalTermFile of symbolService.js, lines 308-442
svcProcessLegalTermFile(file) ==
  IF ~file.readable THEN Rejected
  ELSE Resolved(legalTermsOf([ n \in DOMAIN file.rows |->
                                 svcRow(file.rows[n], n, columns(file.rows)) ]))

\* ---------------------------------------------------------------------------
\* services/legalValidationService.js, processLegalTermFile: the requirement
\* set of the tree the requirement parser of the backend returns
\* ---------------------------------------------------------------------------
Property(req_name, req_desc) == [req_name |-> req_name, req_desc |-> req_desc]

\* a requirement node: its name ("" when it has none; a name that is no string
\* has no toLowerCase), its req_properties when it has them
Node(name, nameIsString, hasProperties, req_properties) ==
  [name |-> name, nameIsString |-> nameIsString, hasProperties |-> hasProperties,
   req_properties |-> req_properties]

\* the response of the parser: with or without result, with text_requirement
\* and symbol_requirement arrays or something else in their place
Data(hasResult, textIsArray, text_requirement, symbolIsArray, symbol_requirement) ==
  [hasResult |-> hasResult, textIsArray |-> textIsArray,
   text_requirement |-> text_requirement, symbolIsArray |-> symbolIsArray,
   symbol_requirement |-> symbol_requirement]

\* the data of the fallback, lines 38-68
FallbackData ==
  Data(TRUE,
       TRUE, << Node("Warning Text", TRUE, TRUE,
                     << Property("text_height", "Text must be at least 12mm tall"),
                        Property("text_statement", "Must contain warning statement") >>) >>,
       TRUE, << Node("Warning Symbol", TRUE, FALSE, <<>>) >>)

\* req_properties.find(...), lines 111-115: the first property whose req_name
\* includes 'statement', 'text' or 'phrase'; <<>> when there is none
textProperty(req_properties) ==
  LET hits == SelectSeq(req_properties,
                        LAMBDA p : \/ includes(p.req_name, "statement")
                                   \/ includes(p.req_name, "text")
                                   \/ includes(p.req_name, "phrase"))
  IN  IF hits = <<>> THEN <<>> ELSE <<hits[1]>>

\* pattern of a text requirement node, lines 101-120
patternOf(req) ==
  LET found == IF req.hasProperties THEN textProperty(req.req_properties) ELSE <<>>
  IN  IF found # <<>> /\ found[1].req_desc # "" THEN found[1].req_desc ELSE req.name

RECURSIVE textRequirements(_, _)
\* the forEach over text_requirement, lines 97-124, from the list pushed so far
textRequirements(nodes, list) ==
  IF nodes = <<>> THEN list
  ELSE LET req == Head(nodes)
       IN  IF req.name = "" THEN textRequirements(Tail(nodes), list)
           ELSE textRequirements(Tail(nodes),
                  Append(list, [id |-> "text_" \o ToString(Len(list)),
                                description |-> req.name,
                                pattern |-> patternOf(req),
                                required |-> TRUE]))

RECURSIVE symbolRequirements(_, _)
\* the forEach over symbol_requirement, lines 127-141: req.name.toLowerCase()
\* throws on a name that is no string, and the catch of line 146 returns what
\* was pushed before
symbolRequirements(nodes, list) ==
  IF nodes = <<>> THEN list
  ELSE LET req == Head(nodes)
       IN  IF req.name = "" THEN symbolRequirements(Tail(nodes), list)
           ELSE IF ~req.nameIsString THEN list
           ELSE symbolRequirements(Tail(nodes),
                  Append(list, [id |-> "symbol_" \o ToString(Len(list)),
                                description |-> req.name,
                                class |-> toLowerCase(req.name),
                                required |-> TRUE]))

\* processRequirementsData, lines 84-150
processRequirementsData(data) ==
  [ required_texts |->
      IF data.hasResult /\ data.textIsArray
      THEN textRequirements(data.text_requirement, <<>>) ELSE <<>>,
    required_symbols |->
      IF data.hasResult /\ data.symbolIsArray
      THEN symbolRequirements(data.symbol_requirement, <<>>) ELSE <<>>,
    layout_requirements |-> <<>> ]

\* processLegalTermFile of legalValidationService.js, lines 14-77: when the
\* parser cannot be reached or answers with an error, the fallback data is
\* processed in place of its response
lvsProcessLegalTermFile(file) ==
  Resolved(processRequirementsData(IF file.reachable THEN file.data ELSE FallbackData))

\* a request that fails: fetch rejects, the status is not OK, or the body is
\* no JSON; the message of the error the try block throws, lines 204-213
requestError(request) ==
  CASE request.kind = "network" -> "Failed to fetch"
    [] request.kind = "status"  ->
         "HTTP error in verification! Status: " \o ToString(request.status)
    [] request.kind = "json"    -> "Unexpected token < in JSON at position 0"

\* the argument legalTerms as a JavaScript value: null, undefined, or an object
\* that has its lists or lacks them
LegalValue(is, hasTexts, hasSymbols, legal) ==
  [ is |-> is, hasTexts |-> hasTexts, hasSymbols |-> hasSymbols,
    required_texts |-> legal.required_texts, required_symbols |-> legal.required_symbols ]

\* a requirement set a builder resolved with
Given(legal) == LegalValue("object", TRUE, TRUE, legal)

\* {...item, valid: false, error: error.message}, lines 223 to 230
failedVerdict(item, message) ==
  [ field \in DOMAIN item \cup {"valid", "error"} |->
      IF field = "valid" THEN FALSE
      ELSE IF field = "error" THEN message
      ELSE item[field] ]

\* mutant of the fallback result: an optional item counts as valid
lvsValidateOptionalValid(legal, request) ==
  [ text_validations |->
      IF legal.is = "object" /\ legal.hasTexts
      THEN [ n \in DOMAIN legal.required_texts |->
               [failedVerdict(legal.required_texts[n], requestError(request))
                  EXCEPT !.valid = ~legal.required_texts[n].required] ]
      ELSE <<>>,
    symbol_validations |->
      IF legal.is = "object" /\ legal.hasSymbols
      THEN [ n \in DOMAIN legal.required_symbols |->
               [failedVerdict(legal.required_symbols[n], requestError(request))
                  EXCEPT !.valid = ~legal.required_symbols[n].required] ]
      ELSE <<>>,
    layout_validations |-> <<>> ]

\* validateAgainstLegalTerms of legalValidationService.js, lines 160-235, on a
\* request that fails: the result of the catch, lines 217-233
lvsValidateAgainstLegalTerms(legal, request) ==
  [ text_validations |->
      IF legal.is = "object" /\ legal.hasTexts
      THEN [ n \in DOMAIN legal.required_texts |->
               failedVerdict(legal.required_texts[n], requestError(request)) ]
      ELSE <<>>,
    symbol_validations |->
      IF legal.is = "object" /\ legal.hasSymbols
      THEN [ n \in DOMAIN legal.required_symbols |->
               failedVerdict(legal.required_symbols[n], requestError(request)) ]
      ELSE <<>>,
    layout_validations |-> <<>> ]

\* ---------------------------------------------------------------------------
\* config/apiConfig (unnamed/part_002)
\* ---------------------------------------------------------------------------
\* lines 13-14
TEXT_API_URL == "/api/text"

SYMBOL_API_URL == "/api/symbol"

\* API_ENDPOINTS as the module defines it, lines 42-62
InitialEndpoints ==
  [ TEXT_DETECTION          |-> TEXT_API_URL \o "/predict_pipeline",
    TEXT_REFINEMENT         |-> TEXT_API_URL \o "/refine_texts",
    SYMBOL_DETECTION        |-> SYMBOL_API_URL \o "/detect_symbols",
    SYMBOL_REFINEMENT       |-> TEXT_API_URL \o "/refine_symbols",
    UPLOAD_REQUIREMENTS     |-> TEXT_API_URL \o "/upload_requirements",
    VALIDATE_PRODUCT        |-> TEXT_API_URL \o "/validate_product",
    PARSE_REQUIREMENTS      |-> TEXT_API_URL \o "/req_parser",
    CHECK_TEXT_REQUIREMENTS |-> TEXT_API_URL \o "/check_text_requirement",
    TEXT_PIPELINE           |-> TEXT_API_URL \o "/predict_pipeline",
    VERIFY_REQUIREMENTS     |-> TEXT_API_URL \o "/verify_requirements",
    TEXT_STATUS             |-> TEXT_API_URL \o "/status",
    SYMBOL_STATUS           |-> SYMBOL_API_URL \o "/status" ]

\* String.prototype.startsWith
startsWith(s, prefix) == Len(prefix) <= Len(s) /\ SubSeq(s, 1, Len(prefix)) = prefix

\* String.prototype.replace with a string pattern and a replacement without $:
\* the first occurrence of the pattern is replaced
replaceString(s, pattern, replacement) ==
  IF ~includes(s, pattern) THEN s
  ELSE LET i == CHOOSE k \in 1..(Len(s) - Len(pattern) + 1) :
                  /\ SubSeq(s, k, k + Len(pattern) - 1) = pattern
                  /\ \A j \in 1..(k - 1) : SubSeq(s, j, j + Len(pattern) - 1) # pattern
       IN  SubSeq(s, 1, i - 1) \o replacement \o SubSeq(s, i + Len(pattern), Len(s))

\* the loop of updateTextApiUrl and of updateSymbolApiUrl, lines 68-74 and
\* 82-88: the endpoints that start with the exported URL have it replaced
updateApiUrl(endpoints, url, newUrl) ==
  [ key \in DOMAIN endpoints |->
      IF startsWith(endpoints[key], url)
      THEN replaceString(endpoints[key], url, newUrl)
      ELSE endpoints[key] ]
\* ---------------------------------------------------------------------------
\* The inputs
\* ---------------------------------------------------------------------------
\* the sequences of at most n elements of pool (a sequence), in pool order
SortedSeqs(pool, n) ==
  { [i \in DOMAIN ix |-> pool[ix[i]]] :
      ix \in { f \in UNION { [1..k -> DOMAIN pool] : k \in 0..n } :
                 \A i \in 1..(Len(f) - 1) : f[i] <= f[i + 1] } }

\* n copies of e
Copies(n, e) == [i \in 1..n |-> e]

TextReq(pattern, required) ==
  [id |-> "", description |-> pattern, pattern |-> pattern, required |-> required]

SymbolReq(class, required) ==
  [id |-> "", description |-> class, class |-> class, required |-> required]

LayoutReq(description, required) ==
  [id |-> "", description |-> description, rule |-> "", required |-> required]

Region(text) == [text |-> text]

Symbol(class) == [class |-> class]

\* the requirement sets of at most MaxRows rows over three pools
LegalTermsOver(textPool, symbolPool, layoutPool) ==
  { [required_texts |-> t, required_symbols |-> s, layout_requirements |-> l] :
      <<t, s, l>> \in
        { c \in SortedSeqs(textPool, MaxRows) \X SortedSeqs(symbolPool, MaxRows)
                  \X SortedSeqs(layoutPool, MaxRows) :
            Len(c[1]) + Len(c[2]) + Len(c[3]) <= MaxRows } }

\* the detection results of at most MaxDetections detections over two pools
DetectionsOver(regionPool, classPool) ==
  { c \in SortedSeqs(regionPool, MaxDetections) \X SortedSeqs(classPool, MaxDetections) :
      Len(c[1]) + Len(c[2]) <= MaxDetections }

\* useState(null) of error in App (App.jsx line 9) and in IntegratedPage
\* (unnamed/part_006 line 23)
NoError == [App |-> "", IntegratedPage |-> "", CombinedDetectionPage |-> ""]

\* the component as it is mounted: no image selected, nothing in flight, and
\* the endpoints as config/apiConfig defines them
Mounted(component) ==
  /\ page = component
  /\ selectedFile = ""
  /\ previewUrl = ""
  /\ isLoading = FALSE
  /\ isValidating = FALSE
  /\ processingStage = ""
  /\ pending = {}
  /\ API_ENDPOINTS = InitialEndpoints

InitOver(terms, detections) ==
  /\ legalTerms \in terms
  /\ \E d \in detections : textResults = d[1] /\ symbolResults = d[2]
  /\ validationData = Null
  /\ validationResults = Null
  /\ svcResults = Null
  /\ returned = {}
  /\ history = <<>>
  /\ legalTermFile = Null
  /\ parsed = <<>>
  /\ detected = [text |-> "array", symbol |-> "array"]
  /\ error = NoError
  /\ Mounted("App")

\* ---------------------------------------------------------------------------
\* The operations
\* ---------------------------------------------------------------------------
\* App.jsx, validateAgainstLegalTerms, lines 559-589: the local validation of
\* the detections against the requirement set and the report stored in the
\* component state
\* what a run leaves in the console log: its arguments and its verdicts
Run(texts, symbols, legal, data) ==
  [ texts  |-> texts, symbols |-> symbols, legal |-> legal,
    text   |-> [n \in DOMAIN data.text_validations |-> data.text_validations[n].found],
    symbol |-> [n \in DOMAIN data.symbol_validations |-> data.symbol_validations[n].found],
    compliance |-> data.compliance, passed |-> data.passed ]

ValidateLocal ==
  /\ "local" \notin returned
  /\ Len(history) < MaxRuns
  /\ LET data == performLocalValidation(textResults, symbolResults, legalTerms)
     IN  /\ validationData' = data
         /\ validationResults' = transformedData(data)
         /\ history' = Append(history, Run(textResults, symbolResults, legalTerms, data))
  /\ returned' = returned \cup {"local"}
  /\ UNCHANGED <<textResults, symbolResults, legalTerms, svcResults, legalTermFile, parsed,
                 detected, error>>
  /\ UNCHANGED <<API_ENDPOINTS, pageVars>>

\* symbolService.js, validateAgainstLegalTerms, lines 450-525, called with
\* ocrResults = {results: textResults} and symbolResults = {symbols: symbolResults}
ValidateService ==
  /\ "service" \notin returned
  /\ svcResults' = svcValidateAgainstLegalTerms(textResults, symbolResults, legalTerms)
  /\ returned' = returned \cup {"service"}
  /\ UNCHANGED <<textResults, symbolResults, legalTerms, validationData,
                 validationResults, history, legalTermFile, parsed,
                 detected, error>>
  /\ UNCHANGED <<API_ENDPOINTS, pageVars>>

Next == ValidateLocal \/ ValidateService

\* --- small requirement sets with required and optional rows of every kind
GeneralTerms ==
  LegalTermsOver(
    << TextReq("CHOKING HAZARD", TRUE), TextReq("CHOKING HAZARD", FALSE),
       TextReq("Made in China", TRUE), TextReq("Made in China", FALSE) >>,
    << SymbolReq("ce_mark", TRUE), SymbolReq("ce_mark", FALSE),
       SymbolReq("recycle", TRUE), SymbolReq("recycle", FALSE) >>,
    << LayoutReq("logo must be on the front", TRUE),
       LayoutReq("logo must be on the front", FALSE) >>)

GeneralDetections ==
  DetectionsOver(<< Region("Choking Hazard - Small Parts") >>,
                 << Symbol("logo"), Symbol("ce mark") >>)

Init == InitOver(GeneralTerms, GeneralDetections)

Spec == Init /\ [][Next]_vars

\* --- large requirement sets: up to MaxBulk required texts and MaxBulk required
\* symbols, of which the package lacks at most MaxMissing each
BulkTerms ==
  { [ required_texts |->
        Copies(nt - mt, TextReq("CHOKING HAZARD", TRUE))
          \o Copies(mt, TextReq("Made in China", TRUE)),
      required_symbols |->
        Copies(ns - ms, SymbolReq("ce_mark", TRUE))
          \o Copies(ms, SymbolReq("recycle", TRUE)),
      layout_requirements |-> <<>> ] :
      <<nt, mt, ns, ms>> \in
        { c \in (0..MaxBulk) \X (0..MaxMissing) \X (0..MaxBulk) \X (0..MaxMissing) :
            c[2] <= c[1] /\ c[4] <= c[3] } }

BulkDetections ==
  { << <<Region("Choking Hazard - Small Parts")>>, <<Symbol("ce mark")>> >> }

InitThreshold == InitOver(BulkTerms, BulkDetections)

SpecThreshold == InitThreshold /\ [][Next]_vars

\* --- text requirements against regions in either letter case, with symbols
TextTerms ==
  LegalTermsOver(
    << TextReq("CHOKING HAZARD", TRUE), TextReq("Choking Hazard", FALSE),
       TextReq("small parts warning label", TRUE) >>,
    << SymbolReq("small parts warning label", TRUE) >>,
    << >>)

TextDetections ==
  DetectionsOver(
    << Region("choking hazard - small parts"), Region("CHOKING HAZARD"),
       Region("Warning Label"), Region("warning"), Region("a warning sign") >>,
    << Symbol("logo"), Symbol("warning_sign") >>)

InitText == InitOver(TextTerms, TextDetections)

SpecText == InitText /\ [][Next]_vars

\* --- symbol requirements against detections in either spelling
SymbolTerms ==
  LegalTermsOver(
    << >>,
    << SymbolReq("ce_mark", TRUE), SymbolReq("age grade", TRUE),
       SymbolReq("age_grade", TRUE), SymbolReq("ce ul", TRUE),
       SymbolReq("ce_ul", TRUE) >>,
    << >>)

SymbolDetections ==
  DetectionsOver(
    << >>,
    << Symbol("ce"), Symbol("ce mark"), Symbol("ce_mark"), Symbol("Age Grade"),
       Symbol("age_grade"), Symbol("ce ul"), Symbol("CE_UL") >>)

InitSymbol == InitOver(SymbolTerms, SymbolDetections)

SpecSymbol == InitSymbol /\ [][Next]_vars

\* --- requirements without a target or named like an inherited property, short
\* targets, regions without text and detections without a class
NoText == RawResult("", FALSE, <<>>, FALSE, <<>>, FALSE, 0)

NoTextWithId == RawResult("", TRUE, <<>>, TRUE, <<"Made", "in", "China">>, TRUE, 7)

WordsOnly == RawResult("", FALSE, <<>>, TRUE, <<"Made", "in", "China">>, FALSE, 0)

EdgeTerms ==
  LegalTermsOver(
    << TextReq("", TRUE), TextReq("constructor", TRUE), TextReq("Region", TRUE) >>,
    << SymbolReq("", TRUE), SymbolReq("ce", TRUE), SymbolReq("__proto__", FALSE) >>,
    << >>)

EdgeDetections ==
  { <<extractedResults(d[1]), d[2]>> :
      d \in DetectionsOver(<< NoText, NoTextWithId, WordsOnly >>,
                           << Symbol(""), Symbol("ce_mark"), Symbol("logo") >>) }

InitEdge == InitOver(EdgeTerms, EdgeDetections)

SpecEdge == InitEdge /\ [][Next]_vars

\* --- validation run again and again, on the same and on other detections and
\* requirement sets
RerunTerms ==
  { [ required_texts      |-> <<TextReq("small parts warning label", TRUE)>>,
      required_symbols    |-> <<SymbolReq("warning sign", TRUE)>>,
      layout_requirements |-> <<>> ],
    [ required_texts      |-> <<TextReq("Made in China", FALSE)>>,
      required_symbols    |-> <<>>,
      layout_requirements |-> <<>> ] }

RerunDetections ==
  { << <<Region("Made in China")>>, <<>> >>,
    << <<Region("Warning Label")>>, <<Symbol("logo")>> >>,
    << <<>>, <<Symbol("warning_sign")>> >> }

\* between two validations: handleSubmit (App.jsx lines 134-300) resets the
\* report and stores the detections of another image, and
\* handleLegalTermFileChange (lines 107-131) another requirement file, so that
\* the next validation builds another requirement set
Redetect ==
  /\ "local" \in returned
  /\ Len(history) < MaxRuns
  /\ \E d \in RerunDetections, terms \in RerunTerms :
       /\ textResults' = d[1]
       /\ symbolResults' = d[2]
       /\ legalTerms' = terms
  /\ validationData' = Null
  /\ validationResults' = Null
  /\ returned' = returned \ {"local"}
  /\ UNCHANGED <<svcResults, history, legalTermFile, parsed, detected, error>>
  /\ UNCHANGED <<API_ENDPOINTS, pageVars>>

NextRerun == ValidateLocal \/ Redetect

InitRerun == InitOver(RerunTerms, RerunDetections)

SpecRerun == InitRerun /\ [][NextRerun]_vars

\* --- the requirement builders on sheets and on parser answers
\* the sequences of at most n elements of a set, in any order
SeqsUpTo(pool, n) == UNION { [1..k -> pool] : k \in 0..n }

SheetRows ==
  { Row("Warning: choking hazard", "", "", "", "Text"),
    Row("CE mark", "ce_mark", "", "", "other"),
    Row("CE mark", "ce_mark", "must be on the front", "", ""),
    Row("Made in China", "", "", "", ""),
    Row("Age Grade 3+", "", "", "false", ""),
    Row("logo", "#UNKNOWN", "", "", ""),
    Row("", "", "position of the logo", "", "layout") }

Sheets ==
  { [readable |-> TRUE, rows |-> rows] : rows \in SeqsUpTo(SheetRows, MaxRows) }
    \cup { [readable |-> FALSE, rows |-> <<>>] }

\* the state before a builder is called
InitBuilder(files) ==
  /\ legalTermFile \in files
  /\ parsed = <<>>
  /\ legalTerms = NoRequirement
  /\ textResults = <<>>
  /\ symbolResults = <<>>
  /\ validationData = Null
  /\ validationResults = Null
  /\ svcResults = Null
  /\ returned = {}
  /\ history = <<>>
  /\ detected = [text |-> "array", symbol |-> "array"]
  /\ error = NoError
  /\ Mounted("App")

\* a call of one processLegalTermFile on the file; the one of App.jsx gives
\* validateAgainstLegalTerms its legalTerms (line 513)
Process(builder, outcome) ==
  /\ builder \notin DOMAIN parsed
  /\ parsed' = [b \in DOMAIN parsed \cup {builder} |->
                  IF b = builder THEN outcome ELSE parsed[b]]
  /\ UNCHANGED <<textResults, symbolResults, validationData, validationResults,
                 svcResults, returned, history, legalTermFile, detected, error>>
  /\ UNCHANGED <<API_ENDPOINTS, pageVars>>

ProcessApp ==
  /\ Process("App", processLegalTermFile(legalTermFile))
  /\ legalTerms' = IF processLegalTermFile(legalTermFile).settled = "resolved"
                   THEN processLegalTermFile(legalTermFile).legalTerms
                   ELSE legalTerms

ProcessService ==
  /\ Process("symbolService", svcProcessLegalTermFile(legalTermFile))
  /\ UNCHANGED legalTerms

ProcessBackend ==
  /\ Process("legalValidationService", lvsProcessLegalTermFile(legalTermFile))
  /\ UNCHANGED legalTerms

NextSheet == ProcessApp \/ ProcessService

InitSheet == InitBuilder(Sheets)

SpecSheet == InitSheet /\ [][NextSheet]_vars

\* --- the builder of legalValidationService.js on answers of the parser
TextNodes ==
  { Node("Warning Text", TRUE, TRUE,
         << Property("text_height", "Text must be at least 12mm tall"),
            Property("text_statement", "Must contain warning statement") >>),
    Node("Choking hazard", TRUE, TRUE, << Property("phrase", "CHOKING HAZARD") >>),
    Node("Age label", TRUE, TRUE, << Property("font_size", "at least 8pt") >>),
    Node("Made in China", TRUE, FALSE, <<>>),
    Node("", TRUE, FALSE, <<>>) }

SymbolNodes ==
  { Node("CE Mark", TRUE, FALSE, <<>>), Node("7", FALSE, FALSE, <<>>) }

Answers ==
  { [reachable |-> TRUE, data |-> Data(TRUE, TRUE, t, TRUE, s)] :
      t \in SeqsUpTo(TextNodes, MaxRows), s \in SeqsUpTo(SymbolNodes, MaxRows) }
    \cup { [reachable |-> TRUE, data |-> Data(FALSE, FALSE, <<>>, FALSE, <<>>)],
           [reachable |-> FALSE, data |-> Data(FALSE, FALSE, <<>>, FALSE, <<>>)] }

NextTree == ProcessBackend

InitTree == InitBuilder(Answers)

SpecTree == InitTree /\ [][NextTree]_vars

\* Array.isArray(results) && results.length > 0, App.jsx lines 495-496
hasResults(shape, results) == shape = "array" /\ Len(results) > 0

\* processedSymbols, App.jsx lines 518-521
processedSymbols(symbols) ==
  [ n \in DOMAIN symbols |-> [symbols[n] EXCEPT !.class = toLowerCase(@)] ]

\* the ways the verification request fails
FailedRequests ==
  { [kind |-> "network", status |-> 0], [kind |-> "status", status |-> 404],
    [kind |-> "status", status |-> 500], [kind |-> "json", status |-> 200] }

\* ---------------------------------------------------------------------------
\* The pages: file selection, detection and validation as asynchronous handlers
\* ---------------------------------------------------------------------------
\* A handler runs up to its next await in one step; the awaited call is a task
\* in pending and the handler goes on when the call settles. A handler reads
\* the state of the render it was created in: the task carries that state.

\* the files the user can choose: two images and a file that is not an image
ImageFiles == {"a.png", "b.png"}

OtherFiles == {"notes.txt"}

\* what the text backend and the symbol backend find on each image: a warning
\* and a CE mark on the first, text and no symbol on the second
DetectedRegions(file) ==
  IF file = "a.png" THEN <<Region("WARNING: CHOKING HAZARD")>>
                    ELSE <<Region("Made in China")>>

DetectedLabels(file) ==
  IF file = "a.png" THEN <<Symbol("CE_Mark")>> ELSE <<>>

\* the state of the current render
Render ==
  [ selectedFile |-> selectedFile, legalTermFile |-> legalTermFile,
    detected |-> detected, textResults |-> textResults,
    symbolResults |-> symbolResults, processingStage |-> processingStage ]

\* the state variables a handler reads after an await: it closes over the
\* state of the render it was created in
Closure(reads) == [ name \in reads |-> Render[name] ]

\* reader.readAsDataURL(file) with its onload callback
Reader(file) == [kind |-> "reader", file |-> file]

\* a handler suspended at an await; textData is what it holds of the text
\* answer, "none" before there is one
Call(handler, awaits, closure, textData) ==
  [ kind |-> "call", handler |-> handler, awaits |-> awaits,
    closure |-> closure, textData |-> textData ]

Calls(handler, awaits) ==
  { task \in pending : task.kind = "call" /\ task.handler = handler
                                          /\ task.awaits = awaits }

\* the variables no handler of a page writes
fixedVars == <<svcResults, history, legalTermFile, parsed, API_ENDPOINTS, page>>

\* the message of the catch block of the detection handlers, part_006 line 164
stageError(stage) ==
  "An error occurred during " \o (IF stage = "" THEN "processing" ELSE stage)
    \o ". Please try again."

\* handleFileChange: unnamed/part_006 lines 50-79 (IntegratedPage),
\* CombinedDetectionPage.jsx lines 36-66, App.jsx lines 70-104
handleFileChange ==
  /\ \E file \in ImageFiles \cup OtherFiles :
       IF file \in ImageFiles
       THEN /\ selectedFile' = file
            /\ pending' = pending \cup {Reader(file)}
            /\ error' = [error EXCEPT ![page] = ""]
            /\ UNCHANGED previewUrl
       ELSE /\ selectedFile' = ""
            /\ previewUrl' = ""
            /\ error' = [error EXCEPT ![page] =
                           "Please select a valid image file (JPEG or PNG)"]
            /\ UNCHANGED pending
  /\ textResults' = <<>>
  /\ symbolResults' = IF page = "App" THEN symbolResults ELSE <<>>
  /\ detected' = [text |-> "null",
                  symbol |-> IF page = "App" THEN detected.symbol ELSE "null"]
  /\ validationResults' = IF page = "CombinedDetectionPage" THEN validationResults ELSE Null
  /\ processingStage' = IF page = "App" THEN processingStage ELSE ""
  /\ returned' = {}
  /\ UNCHANGED <<legalTerms, validationData, isLoading, isValidating>>
  /\ UNCHANGED fixedVars

\* reader.onload of handleFileChange: setPreviewUrl(reader.result)
ReaderLoads ==
  /\ \E task \in pending :
       /\ task.kind = "reader"
       /\ previewUrl' = task.file
       /\ pending' = pending \ {task}
  /\ UNCHANGED <<textResults, symbolResults, detected, legalTerms, validationData,
                 validationResults, returned, error, selectedFile, isLoading,
                 isValidating, processingStage>>
  /\ UNCHANGED fixedVars

\* handleCompletePipeline up to its await, unnamed/part_006 lines 171-192, as
\* handleAnalyzeImage calls it
CompletePipelineStarts ==
  /\ isLoading' = TRUE
  /\ error' = [error EXCEPT ![page] = ""]
  /\ textResults' = <<>>
  /\ symbolResults' = <<>>
  /\ detected' = [text |-> "null", symbol |-> "null"]
  /\ validationResults' = Null
  /\ processingStage' = "text"
  /\ pending' = pending \cup {Call("handleCompletePipeline", "pipeline",
                          Closure({"selectedFile", "processingStage"}), "none")}

\* handleAnalyzeImage up to its first await, unnamed/part_006 lines 102-126;
\* handleSubmit of CombinedDetectionPage.jsx, lines 69-90, is the same without
\* the pipeline. The button is disabled while isLoading (line 438; line 173)
handleAnalyzeImage ==
  /\ page \in {"IntegratedPage", "CombinedDetectionPage"}
  /\ ~isLoading
  /\ returned' = {}
  /\ IF selectedFile = ""
     THEN /\ error' = [error EXCEPT ![page] = "Please select an image file first"]
          /\ UNCHANGED <<textResults, symbolResults, detected, validationResults,
                         isLoading, processingStage, pending>>
     ELSE \E useCompletePipeline \in BOOLEAN :
            IF page = "IntegratedPage" /\ useCompletePipeline /\ legalTermFile.uploaded
            THEN CompletePipelineStarts
            ELSE /\ isLoading' = TRUE
                 /\ error' = [error EXCEPT ![page] = ""]
                 /\ textResults' = <<>>
                 /\ symbolResults' = <<>>
                 /\ detected' = [text |-> "null", symbol |-> "null"]
                 /\ processingStage' = "text"
                 /\ pending' = pending \cup
                      {Call("handleAnalyzeImage", "detectText",
                            Closure({"selectedFile", "processingStage"}), "none")}
                 /\ UNCHANGED validationResults
  /\ UNCHANGED <<legalTerms, validationData, selectedFile, previewUrl, isValidating>>
  /\ UNCHANGED fixedVars

\* a catch block without the finally block
DetectionFailsWithoutFinally(task) ==
  /\ error' = [error EXCEPT ![page] = stageError(task.closure.processingStage)]
  /\ pending' = pending \ {task}
  /\ returned' = {task.handler}
  /\ UNCHANGED <<textResults, symbolResults, detected, validationResults, processingStage,
                 isLoading>>

\* the catch and the finally block of a detection handler, part_006 lines 162-167
DetectionFails(task) ==
  /\ error' = [error EXCEPT ![page] = stageError(task.closure.processingStage)]
  /\ isLoading' = FALSE
  /\ pending' = pending \ {task}
  /\ returned' = {task.handler}
  /\ UNCHANGED <<textResults, symbolResults, detected, validationResults, processingStage>>

\* detectText settles, unnamed/part_006 lines 126-143: it resolves with the
\* regions of the image it was called with, or rejects
detectTextSettles ==
  /\ \E task \in Calls("handleAnalyzeImage", "detectText") :
       \/ /\ textResults' = DetectedRegions(task.closure.selectedFile)
          /\ detected' = [detected EXCEPT !.text = "object"]
          /\ processingStage' = "symbols"
          /\ pending' = (pending \ {task}) \cup {[task EXCEPT !.awaits = "detectSymbols"]}
          /\ UNCHANGED <<symbolResults, validationResults, returned, error, isLoading>>
       \/ DetectionFails(task)
  /\ UNCHANGED <<legalTerms, validationData, selectedFile, previewUrl, isValidating>>
  /\ UNCHANGED fixedVars

\* detectSymbols settles, unnamed/part_006 lines 143-167: it resolves with the
\* labels of the image in lower case (symbolService.js line 56), or rejects
detectSymbolsSettles ==
  /\ \E task \in Calls("handleAnalyzeImage", "detectSymbols") :
       \/ /\ symbolResults' = processedSymbols(DetectedLabels(task.closure.selectedFile))
          /\ detected' = [detected EXCEPT !.symbol = "array"]
          /\ processingStage' = "complete"
          /\ isLoading' = FALSE
          /\ pending' = pending \ {task}
          /\ returned' = {task.handler, "detected"}
          /\ UNCHANGED <<textResults, validationResults, error>>
       \/ DetectionFails(task)
  /\ UNCHANGED <<legalTerms, validationData, selectedFile, previewUrl, isValidating>>
  /\ UNCHANGED fixedVars

\* what the text pipeline answers on an image: everything it can return, or an
\* answer whose fields are missing (ocrService, processTextPipeline, lines 321-329)
PipelineData(file, full) ==
  [ detectionResults |-> IF full THEN DetectedRegions(file) ELSE <<>>,
    refinedSymbols   |-> IF full THEN DetectedLabels(file) ELSE <<>>,
    text_requirment  |-> IF full THEN <<[id |-> "1", refined_text |-> DetectedRegions(file)[1].text]>>
                                 ELSE <<>> ]

\* the report handleCompletePipeline builds, unnamed/part_006 lines 233-249
PipelineReport(pipelineData) ==
  [ text_validations |->
      [ n \in DOMAIN pipelineData.text_requirment |->
          [ id |-> "text_" \o pipelineData.text_requirment[n].id,
            description |-> pipelineData.text_requirment[n].refined_text,
            pattern |-> pipelineData.text_requirment[n].refined_text,
            required |-> TRUE, valid |-> TRUE ] ],
    symbol_validations |-> <<>>,
    layout_validations |-> <<>> ]

\* processTextPipeline settles, unnamed/part_006 lines 192-265
processTextPipelineSettles ==
  /\ \E task \in Calls("handleCompletePipeline", "pipeline") :
       \/ \E full \in BOOLEAN :
            LET pipelineData == PipelineData(task.closure.selectedFile, full)
            IN  /\ IF Len(pipelineData.detectionResults) > 0
                   THEN /\ textResults' = pipelineData.detectionResults
                        /\ detected' = [text |-> "object",
                                        symbol |-> IF Len(pipelineData.refinedSymbols) > 0
                                                   THEN "array" ELSE detected.symbol]
                   ELSE /\ UNCHANGED textResults
                        /\ detected' = [detected EXCEPT !.symbol =
                                          IF Len(pipelineData.refinedSymbols) > 0
                                          THEN "array" ELSE @]
                /\ symbolResults' = IF Len(pipelineData.refinedSymbols) > 0
                                    THEN pipelineData.refinedSymbols ELSE symbolResults
                /\ validationResults' = PipelineReport(pipelineData)
                /\ processingStage' = "complete"
                /\ isLoading' = FALSE
                /\ pending' = pending \ {task}
                /\ returned' = {task.handler, "detected"}
                /\ UNCHANGED error
       \/ DetectionFails(task)
  /\ UNCHANGED <<legalTerms, validationData, selectedFile, previewUrl, isValidating>>
  /\ UNCHANGED fixedVars

\* legalValidationService.js, processVerificationResults(verificationResults,
\* null), lines 243-443, on an answer of the backend that holds no requirement
\* results: one verdict per detected symbol (lines 326-410)
processVerificationResults(symbols) ==
  [ text_validations |-> <<>>,
    symbol_validations |->
      [ n \in DOMAIN symbols |->
          [ class |-> toLowerCase(symbols[n].class), required |-> TRUE, valid |-> TRUE ] ],
    layout_validations |-> <<>> ]

\* handleVerifyRequirements up to its await, unnamed/part_006 lines 322-344.
\* Its button is disabled without a requirement file, without text results,
\* without symbol results and while isLoading (lines 514-516)
handleVerifyRequirements ==
  /\ page = "IntegratedPage"
  /\ legalTermFile.uploaded /\ detected.text # "null" /\ detected.symbol # "null"
  /\ ~isLoading
  /\ isLoading' = TRUE
  /\ processingStage' = "verification"
  /\ error' = [error EXCEPT ![page] = ""]
  /\ pending' = pending \cup {Call("handleVerifyRequirements", "verifyRequirements",
                          Closure({"symbolResults"}), "none")}
  /\ returned' = {}
  /\ UNCHANGED <<textResults, symbolResults, detected, legalTerms, validationData,
                 validationResults, selectedFile, previewUrl, isValidating>>
  /\ UNCHANGED fixedVars

\* verifyRequirements settles, unnamed/part_006 lines 339-362
verifyRequirementsSettles ==
  /\ \E task \in Calls("handleVerifyRequirements", "verifyRequirements") :
       /\ \/ /\ validationResults' = processVerificationResults(task.closure.symbolResults)
             /\ returned' = {task.handler, "verified"}
             /\ UNCHANGED error
          \/ /\ error' = [error EXCEPT ![page] =
                  "An error occurred while verifying requirements. Please try again."]
             /\ returned' = {task.handler}
             /\ UNCHANGED validationResults
       /\ pending' = pending \ {task}
  /\ isLoading' = FALSE
  /\ processingStage' = "complete"
  /\ UNCHANGED <<textResults, symbolResults, detected, legalTerms, validationData,
                 selectedFile, previewUrl, isValidating>>
  /\ UNCHANGED fixedVars

\* handleValidate up to its first await, unnamed/part_006 lines 269-288
handleValidate ==
  /\ page = "IntegratedPage"
  /\ ~isLoading
  /\ IF ~legalTermFile.uploaded
     THEN /\ error' = [error EXCEPT ![page] = "Please upload a legal term file first"]
          /\ returned' = {"handleValidate"}
          /\ UNCHANGED <<isLoading, processingStage, pending>>
     ELSE IF detected.text = "null" \/ detected.symbol = "null"
     THEN /\ error' = [error EXCEPT ![page] = "Please analyze an image first"]
          /\ returned' = {"handleValidate"}
          /\ UNCHANGED <<isLoading, processingStage, pending>>
     ELSE /\ error' = [error EXCEPT ![page] = ""]
          /\ isLoading' = TRUE
          /\ processingStage' = "validation"
          /\ pending' = pending \cup {Call("handleValidate", "validateAgainstLegalTerms",
                                  Closure({"legalTermFile"}), "none")}
          /\ returned' = {}
  /\ UNCHANGED <<textResults, symbolResults, detected, legalTerms, validationData,
                 validationResults, selectedFile, previewUrl, isValidating>>
  /\ UNCHANGED fixedVars

\* processLegalTermFile and validateAgainstLegalTerms of legalValidationService
\* settle, unnamed/part_006 lines 288-318, with the verification endpoint of
\* the backend out of reach: neither of the two rejects
handleValidateResumes ==
  /\ \E task \in Calls("handleValidate", "validateAgainstLegalTerms") :
       /\ \E request \in FailedRequests :
            validationResults' =
              lvsValidateAgainstLegalTerms(
                Given(lvsProcessLegalTermFile(task.closure.legalTermFile).legalTerms), request)
       /\ pending' = pending \ {task}
  /\ isLoading' = FALSE
  /\ processingStage' = "complete"
  /\ returned' = {"handleValidate", "backend"}
  /\ UNCHANGED <<textResults, symbolResults, detected, legalTerms, validationData,
                 error, selectedFile, previewUrl, isValidating>>
  /\ UNCHANGED fixedVars

\* the state validateAgainstLegalTerms of App reads, App.jsx lines 489-521
Validated == {"legalTermFile", "detected", "textResults", "symbolResults"}

\* the message of the catch block of handleSubmit, App.jsx line 296
SubmitError == "An error occurred while processing the image. Please try again."

\* the two checks of validateAgainstLegalTerms before it starts, App.jsx lines
\* 489-502, on the state the calling render holds
validationRefused(closure) ==
  \/ ~closure.legalTermFile.uploaded
  \/ /\ ~hasResults(closure.detected.text, closure.textResults)
     /\ ~hasResults(closure.detected.symbol, closure.symbolResults)

refusal(closure) ==
  IF ~closure.legalTermFile.uploaded
  THEN "Please upload a legal term file first"
  ELSE "No detection results available. Please detect text and symbols first."

\* handleSubmit of App up to its first await, App.jsx lines 134-160. The button
\* is disabled while isLoading (line 947)
handleSubmit ==
  /\ page = "App"
  /\ ~isLoading
  /\ returned' = {}
  /\ IF selectedFile = ""
     THEN /\ error' = [error EXCEPT !.App = "Please select an image file first"]
          /\ UNCHANGED <<textResults, symbolResults, detected, validationResults,
                         isLoading, pending>>
     ELSE /\ isLoading' = TRUE
          /\ error' = [error EXCEPT !.App = ""]
          /\ textResults' = <<>>
          /\ symbolResults' = <<>>
          /\ detected' = [text |-> "null", symbol |-> "null"]
          /\ validationResults' = Null
          /\ pending' = pending \cup {Call("handleSubmit", "textResponse", Closure(Validated \cup {"selectedFile"}), "none")}
  /\ UNCHANGED <<legalTerms, validationData, selectedFile, previewUrl, isValidating,
                 processingStage>>
  /\ UNCHANGED fixedVars

\* the catch and the finally block of handleSubmit, App.jsx lines 294-299
SubmitFails(task) ==
  /\ error' = [error EXCEPT !.App = SubmitError]
  /\ isLoading' = FALSE
  /\ pending' = pending \ {task}
  /\ returned' = {"handleSubmit"}
  /\ UNCHANGED <<textResults, symbolResults, detected, validationResults, isValidating>>

\* the text request of handleSubmit settles, App.jsx lines 157-183: an answer
\* with results, an answer without results, or a failure
textResponseSettles ==
  /\ \E task \in Calls("handleSubmit", "textResponse") :
       \/ \E textData \in {"results", "no results"} :
            /\ pending' = (pending \ {task}) \cup
                 {[task EXCEPT !.awaits = "symbolResponse", !.textData = textData]}
            /\ UNCHANGED <<textResults, symbolResults, detected, validationResults,
                           returned, error, isLoading, isValidating>>
       \/ SubmitFails(task)
  /\ UNCHANGED <<legalTerms, validationData, selectedFile, previewUrl, processingStage>>
  /\ UNCHANGED fixedVars

\* the symbol request of handleSubmit settles, App.jsx lines 180-299: the
\* results are stored and validateAgainstLegalTerms of the render of the click
\* is called, which returns at once or starts (lines 488-513)
symbolResponseSettles ==
  /\ \E task \in Calls("handleSubmit", "symbolResponse") :
       \/ /\ task.textData = "no results"
          /\ textResults' = <<>>
          /\ detected' = [detected EXCEPT !.text = "object"]
          /\ isLoading' = FALSE
          /\ pending' = pending \ {task}
          /\ returned' = {"handleSubmit"}
          /\ UNCHANGED <<symbolResults, validationResults, error, isValidating>>
       \/ /\ task.textData = "results"
          /\ textResults' = DetectedRegions(task.closure.selectedFile)
          /\ symbolResults' = processedSymbols(DetectedLabels(task.closure.selectedFile))
          /\ detected' = [text |-> "object", symbol |-> "array"]
          /\ IF ~task.closure.legalTermFile.uploaded
             THEN /\ isLoading' = FALSE
                  /\ pending' = pending \ {task}
                  /\ returned' = {"handleSubmit", "detected"}
                  /\ UNCHANGED <<validationResults, error, isValidating>>
             ELSE IF validationRefused(task.closure)
             THEN /\ error' = [error EXCEPT !.App = refusal(task.closure)]
                  /\ isLoading' = FALSE
                  /\ pending' = pending \ {task}
                  /\ returned' = {"handleSubmit", "detected", "validateAgainstLegalTerms"}
                  /\ UNCHANGED <<validationResults, isValidating>>
             ELSE /\ isValidating' = TRUE
                  /\ error' = [error EXCEPT !.App = ""]
                  /\ validationResults' = Null
                  /\ pending' = (pending \ {task}) \cup
                       {[task EXCEPT !.awaits = "validateAgainstLegalTerms"]}
                  /\ UNCHANGED <<returned, isLoading>>
       \/ SubmitFails(task)
  /\ UNCHANGED <<legalTerms, validationData, selectedFile, previewUrl, processingStage>>
  /\ UNCHANGED fixedVars

\* validateAgainstLegalTerms of App called by the Validate button, up to its
\* await, App.jsx lines 488-513. The button is disabled while isValidating and
\* while results or symbolResults is null (lines 1167-1168)
validateAgainstLegalTerms ==
  /\ page = "App"
  /\ ~isValidating /\ detected.text # "null" /\ detected.symbol # "null"
  /\ IF validationRefused(Closure(Validated))
     THEN /\ error' = [error EXCEPT !.App = refusal(Closure(Validated))]
          /\ returned' = {"validateAgainstLegalTerms"}
          /\ UNCHANGED <<validationResults, isValidating, pending>>
     ELSE /\ isValidating' = TRUE
          /\ error' = [error EXCEPT !.App = ""]
          /\ validationResults' = Null
          /\ pending' = pending \cup
               {Call("validateAgainstLegalTerms", "processLegalTermFile", Closure(Validated), "none")}
          /\ returned' = {}
  /\ UNCHANGED <<textResults, symbolResults, detected, legalTerms, validationData,
                 selectedFile, previewUrl, isLoading, processingStage>>
  /\ UNCHANGED fixedVars

\* processLegalTermFile settles and validateAgainstLegalTerms runs to its end,
\* App.jsx lines 513-600; called by handleSubmit, handleSubmit then runs to its
\* end (lines 292-299). The state results is null or the object handleSubmit
\* stores (lines 263-270): performLocalValidation reads its length, which only
\* an array has
validationResumes ==
  /\ \E task \in Calls("handleSubmit", "validateAgainstLegalTerms")
                   \cup Calls("validateAgainstLegalTerms", "processLegalTermFile") :
       LET closure == task.closure
           built   == processLegalTermFile(closure.legalTermFile)
           texts   == IF closure.detected.text = "array" THEN closure.textResults ELSE <<>>
           symbols == processedSymbols(closure.symbolResults)
           callers == IF task.handler = "handleSubmit"
                      THEN {"handleSubmit", "detected"} ELSE {}
       IN  /\ IF built.settled = "rejected" \/ closure.detected.symbol = "null"
              THEN /\ error' = [error EXCEPT !.App =
                        "An error occurred during legal term validation. Please try again."]
                   /\ returned' = callers \cup {"validateAgainstLegalTerms"}
                   /\ UNCHANGED validationResults
              ELSE LET data == performLocalValidation(texts, symbols, built.legalTerms)
                   IN  /\ validationResults' = transformedData(data)
                       /\ returned' = callers \cup {"validateAgainstLegalTerms", "local"}
                       /\ UNCHANGED error
           /\ isLoading' = IF task.handler = "handleSubmit" THEN FALSE ELSE isLoading
           /\ pending' = pending \ {task}
  /\ isValidating' = FALSE
  /\ UNCHANGED <<textResults, symbolResults, detected, legalTerms, validationData,
                 selectedFile, previewUrl, processingStage>>
  /\ UNCHANGED fixedVars

\* --- validation from the component state, with one or both detection results
\* missing or empty
\* a requirement file with one text and one symbol requirement, as a sheet and
\* as the parser answers on it; no file; a file that cannot be read
PartialFiles ==
  { [ uploaded |-> u, readable |-> r, reachable |-> r,
      rows |-> << Row("Warning: choking hazard", "", "", "", "text"),
                  Row("CE mark", "ce_mark", "", "", "symbol") >>,
      data |-> Data(TRUE, TRUE, <<Node("Warning: choking hazard", TRUE, FALSE, <<>>)>>,
                    TRUE, <<Node("ce_mark", TRUE, FALSE, <<>>)>>) ] :
      <<u, r>> \in {<<TRUE, TRUE>>, <<TRUE, FALSE>>, <<FALSE, TRUE>>} }

\* the detection results in the component state: null, or what a submit stored
PartialDetections ==
  { [ shape |-> [text |-> st, symbol |-> ss], texts |-> t, symbols |-> s ] :
      st \in {"null", "object"}, ss \in {"null", "array"},
      t \in SeqsUpTo({Region("WARNING: CHOKING HAZARD"), Region("Made in China")},
                     MaxDetections),
      s \in SeqsUpTo({Symbol("CE_Mark"), Symbol("logo")}, MaxDetections) }

InitPartial ==
  /\ legalTermFile \in PartialFiles
  /\ \E d \in PartialDetections :
       /\ (d.shape.text = "null" => d.texts = <<>>)
       /\ (d.shape.symbol = "null" => d.symbols = <<>>)
       /\ detected = d.shape
       /\ textResults = d.texts
       /\ symbolResults = d.symbols
  /\ legalTerms = NoRequirement
  /\ parsed = <<>>
  /\ validationData = Null
  /\ validationResults = Null
  /\ svcResults = Null
  /\ returned = {}
  /\ history = <<>>
  /\ error = NoError
  /\ \E component \in {"App", "IntegratedPage"} : Mounted(component)
  \* handleSubmit of App stores regions only together with a symbol array
  /\ (page = "App" /\ detected.text = "object" /\ detected.symbol = "null")
       => textResults = <<>>

NextPartial ==
  validateAgainstLegalTerms \/ validationResumes \/ handleValidate \/ handleValidateResumes

SpecPartial == InitPartial /\ [][NextPartial]_vars

\* --- a session on one of the pages, from its mounting
Components == {"App", "IntegratedPage", "CombinedDetectionPage"}

InitPage ==
  /\ legalTermFile \in {file \in PartialFiles : file.readable}
  /\ detected = [text |-> "null", symbol |-> "null"]
  /\ textResults = <<>>
  /\ symbolResults = <<>>
  /\ legalTerms = NoRequirement
  /\ parsed = <<>>
  /\ validationData = Null
  /\ validationResults = Null
  /\ svcResults = Null
  /\ returned = {}
  /\ history = <<>>
  /\ error = NoError
  /\ \E component \in Components : Mounted(component)

\* what the user does
UserActs ==
  \/ handleFileChange
  \/ handleAnalyzeImage
  \/ handleVerifyRequirements
  \/ handleValidate
  \/ handleSubmit
  \/ validateAgainstLegalTerms

\* what the browser does: a file reader or an awaited call settles
Settles ==
  \/ ReaderLoads
  \/ detectTextSettles
  \/ detectSymbolsSettles
  \/ processTextPipelineSettles
  \/ verifyRequirementsSettles
  \/ handleValidateResumes
  \/ textResponseSettles
  \/ symbolResponseSettles
  \/ validationResumes

NextPage == UserActs \/ Settles

SpecPage == InitPage /\ [][NextPage]_vars

\* --- the session with every awaited call and every file reader settling in
\* the end: the browser resolves or rejects each request and fires each onload
\* the step that ends an await: the task leaves pending
Settled(tasks) == \E task \in tasks : pending' = (pending \ {task})

\* what a handler can be waiting for
Awaits ==
  { <<"handleAnalyzeImage", "detectText">>, <<"handleAnalyzeImage", "detectSymbols">>,
    <<"handleCompletePipeline", "pipeline">>,
    <<"handleVerifyRequirements", "verifyRequirements">>,
    <<"handleValidate", "validateAgainstLegalTerms">>,
    <<"handleSubmit", "textResponse">>, <<"handleSubmit", "symbolResponse">>,
    <<"handleSubmit", "validateAgainstLegalTerms">>,
    <<"validateAgainstLegalTerms", "processLegalTermFile">> }

Fairness ==
  /\ WF_pending(Settled({task \in pending : task.kind = "reader"}))
  /\ \A await \in Awaits : WF_pending(Settled(Calls(await[1], await[2])))

LiveSpecPage == InitPage /\ [][NextPage]_vars /\ Fairness

\* --- the backend URLs are updated at run time
\* the URLs the user supplies: ApiUrlSetter (unnamed/part_004, lines 181-199 and
\* 218-236) passes on a URL that starts with http, without its trailing slash
SuppliedUrls == {"http://a", "http://b", "https://c"}

\* what a call leaves in the session: the function and its argument
Update(call, newUrl) == [call |-> call, newUrl |-> newUrl]

\* updateTextApiUrl, unnamed/part_002 lines 68-74
updateTextApiUrl ==
  /\ Len(history) < MaxUpdates
  /\ \E newUrl \in SuppliedUrls :
       /\ API_ENDPOINTS' = updateApiUrl(API_ENDPOINTS, TEXT_API_URL, newUrl)
       /\ history' = Append(history, Update("updateTextApiUrl", newUrl))
  /\ UNCHANGED <<textResults, symbolResults, legalTerms, validationData, validationResults,
                 svcResults, returned, legalTermFile, parsed, detected, error, pageVars>>

\* updateSymbolApiUrl, unnamed/part_002 lines 82-88
updateSymbolApiUrl ==
  /\ Len(history) < MaxUpdates
  /\ \E newUrl \in SuppliedUrls :
       /\ API_ENDPOINTS' = updateApiUrl(API_ENDPOINTS, SYMBOL_API_URL, newUrl)
       /\ history' = Append(history, Update("updateSymbolApiUrl", newUrl))
  /\ UNCHANGED <<textResults, symbolResults, legalTerms, validationData, validationResults,
                 svcResults, returned, legalTermFile, parsed, detected, error, pageVars>>

InitConfig == InitBuilder({Null})

NextConfig == updateTextApiUrl \/ updateSymbolApiUrl

SpecConfig == InitConfig /\ [][NextConfig]_vars

\* --- the backend-based validation when the verification request fails
\* the values validateAgainstLegalTerms is given as legalTerms: null, undefined,
\* and requirement sets of at most MaxRows rows with or without their lists
LegalValues ==
  { LegalValue(is, FALSE, FALSE, NoRequirement) : is \in {"null", "undefined"} }
    \cup
  { LegalValue("object", hasTexts, hasSymbols,
               [ required_texts   |-> IF hasTexts THEN c[1] ELSE <<>>,
                 required_symbols |-> IF hasSymbols THEN c[2] ELSE <<>> ]) :
      hasTexts \in BOOLEAN, hasSymbols \in BOOLEAN,
      c \in { d \in SortedSeqs(<< TextReq("CHOKING HAZARD", TRUE),
                                  TextReq("Made in China", FALSE) >>, MaxRows)
                     \X SortedSeqs(<< SymbolReq("ce_mark", TRUE),
                                      SymbolReq("recycle", FALSE) >>, MaxRows) :
                 Len(d[1]) + Len(d[2]) <= MaxRows } }

\* legalValidationService.js, validateAgainstLegalTerms, lines 160-235, with a
\* verification request that fails
ValidateBackend ==
  /\ "backend" \notin returned
  /\ \E request \in FailedRequests :
       /\ svcResults' = lvsValidateAgainstLegalTerms(legalTerms, request)
       /\ history' = Append(history, request)
  /\ returned' = returned \cup {"backend"}
  /\ UNCHANGED <<textResults, symbolResults, legalTerms, validationData, validationResults,
                 legalTermFile, parsed, detected, error, API_ENDPOINTS, pageVars>>

InitVerify ==
  /\ legalTerms \in LegalValues
  /\ textResults = <<>>
  /\ symbolResults = <<>>
  /\ validationData = Null
  /\ validationResults = Null
  /\ svcResults = Null
  /\ returned = {}
  /\ history = <<>>
  /\ legalTermFile = Null
  /\ parsed = <<>>
  /\ detected = [text |-> "array", symbol |-> "array"]
  /\ error = NoError
  /\ Mounted("IntegratedPage")

NextVerify == ValidateBackend

SpecVerify == InitVerify /\ [][NextVerify]_vars

\* --- the same requirement set validated against growing evidence
MoreTerms ==
  { [ required_texts      |-> << TextReq("small parts warning label", TRUE),
                                 TextReq("Made in China", TRUE) >>,
      required_symbols    |-> << SymbolReq("warning sign", TRUE) >>,
      layout_requirements |-> <<>> ],
    [ required_texts      |-> << TextReq("Made in China", FALSE) >>,
      required_symbols    |-> << SymbolReq("ce_mark", TRUE), SymbolReq("age grade 3+", TRUE) >>,
      layout_requirements |-> << LayoutReq("logo must be on the front", TRUE) >> ] }

MoreRegions == { Region("Warning"), Region("Small Label"), Region("MADE IN CHINA") }

MoreSymbols == { Symbol("warning_sign"), Symbol("logo"), Symbol("CE Mark") }

\* a sequence with one item more, at any place
InsertAt(list, k, item) == SubSeq(list, 1, k - 1) \o <<item>> \o SubSeq(list, k, Len(list))

\* between two validations handleSubmit (App.jsx lines 134-300) resets the
\* report and stores the detections of an image that shows what the last one
\* showed and one region or one symbol more
DetectMore ==
  /\ "local" \in returned
  /\ Len(history) < MaxRuns
  /\ \/ /\ \E item \in MoreRegions, k \in 1..(Len(textResults) + 1) :
             textResults' = InsertAt(textResults, k, item)
        /\ UNCHANGED symbolResults
     \/ /\ \E item \in MoreSymbols, k \in 1..(Len(symbolResults) + 1) :
             symbolResults' = InsertAt(symbolResults, k, item)
        /\ UNCHANGED textResults
  /\ validationData' = Null
  /\ validationResults' = Null
  /\ returned' = returned \ {"local"}
  /\ UNCHANGED <<legalTerms, svcResults, history, legalTermFile, parsed, detected, error,
                 API_ENDPOINTS, pageVars>>

InitMore == InitOver(MoreTerms, { << <<>>, <<>> >>, << <<Region("Label")>>, <<Symbol("sign")>> >> })

NextMore == ValidateLocal \/ DetectMore

SpecMore == InitMore /\ [][NextMore]_vars

\* ---------------------------------------------------------------------------
\* What the claims speak of, counted on the verdicts themselves
\* ---------------------------------------------------------------------------
LocalReturned == "local" \in returned

ServiceReturned == "service" \in returned

RequiredCount(validations) ==
  Cardinality({ n \in DOMAIN validations : validations[n].required })

RequiredFoundCount(validations) ==
  Cardinality({ n \in DOMAIN validations :
                  validations[n].required /\ validations[n].found })

\* the required layout verdicts: verdict n is the verdict of requirement n
RequiredLayout == { n \in DOMAIN legalTerms.layout_requirements :
                      legalTerms.layout_requirements[n].required }

RequiredValidLayout == { n \in RequiredLayout : validationData.layout_validations[n].valid }

\* the exact ratio of a category, <<numerator, denominator>>, 1/1 when vacuous
ExactRatio(found, required) == IF required = 0 THEN <<1, 1>> ELSE <<found, required>>

ExactText ==
  ExactRatio(RequiredFoundCount(validationData.text_validations),
             RequiredCount(validationData.text_validations))

ExactSymbol ==
  ExactRatio(RequiredFoundCount(validationData.symbol_validations),
             RequiredCount(validationData.symbol_validations))

ExactLayout == ExactRatio(Cardinality(RequiredValidLayout), Cardinality(RequiredLayout))

\* 0.4 * text + 0.4 * symbol + 0.2 * layout as an exact fraction
ExactOverall ==
  << 2 * ExactText[1] * ExactSymbol[2] * ExactLayout[2]
       + 2 * ExactSymbol[1] * ExactText[2] * ExactLayout[2]
       + ExactLayout[1] * ExactText[2] * ExactSymbol[2],
     5 * ExactText[2] * ExactSymbol[2] * ExactLayout[2] >>

\* ---------------------------------------------------------------------------
\* C1
\* ---------------------------------------------------------------------------
\* the regions and detections that symbolService.js compares a requirement with
ServiceFoundText(pattern) ==
  \E i \in DOMAIN textResults :
    /\ textResults[i].text # ""
    /\ includes(toLowerCase(textResults[i].text), toLowerCase(pattern))

ServiceFoundSymbol(class) ==
  \E i \in DOMAIN symbolResults :
    /\ symbolResults[i].class # ""
    /\ toLowerCase(symbolResults[i].class) = toLowerCase(class)

\* C1: in every validation report, every text verdict and every symbol verdict
\* has valid = (found \/ ~required): in the report App stores, and in the result
\* of symbolService.js, whose found is whether its search found the target.
C1_ValidIsFoundOrNotRequired ==
  /\ LocalReturned =>
       /\ \A n \in DOMAIN validationResults.term_validations :
            LET v == validationResults.term_validations[n]
            IN  v.valid = (v.found \/ ~v.required)
       /\ \A n \in DOMAIN validationResults.symbol_validations :
            LET v == validationResults.symbol_validations[n]
            IN  v.valid = (v.found \/ ~v.required)
  /\ ServiceReturned =>
       /\ \A n \in DOMAIN svcResults.text_validations :
            LET v == svcResults.text_validations[n]
            IN  v.valid = (ServiceFoundText(v.pattern) \/ ~v.required)
       /\ \A n \in DOMAIN svcResults.symbol_validations :
            LET v == svcResults.symbol_validations[n]
            IN  v.valid = (ServiceFoundSymbol(v.class) \/ ~v.required)

\* an optional requirement without evidence, reported valid, next to a required
\* one without evidence, reported invalid
C1_Witness ==
  /\ LocalReturned
  /\ \E n \in DOMAIN validationResults.term_validations :
       LET v == validationResults.term_validations[n]
       IN  ~v.required /\ ~v.found /\ v.valid
  /\ \E n \in DOMAIN validationResults.symbol_validations :
       LET v == validationResults.symbol_validations[n]
       IN  v.required /\ ~v.found /\ ~v.valid

\* ---------------------------------------------------------------------------
\* C2
\* ---------------------------------------------------------------------------
\* C2: for each category with at least one required verdict, the ratio the
\* aggregator computes is the Number (required and found) / (required); the
\* optional verdicts, found or not, are in neither count.
C2_RatioCountsRequiredOnly ==
  LocalReturned =>
    /\ RequiredCount(validationData.text_validations) > 0 =>
         validationData.compliance.text =
           FDiv(RequiredFoundCount(validationData.text_validations),
                RequiredCount(validationData.text_validations))
    /\ RequiredCount(validationData.symbol_validations) > 0 =>
         validationData.compliance.symbol =
           FDiv(RequiredFoundCount(validationData.symbol_validations),
                RequiredCount(validationData.symbol_validations))
    /\ RequiredLayout # {} =>
         validationData.compliance.layout =
           FDiv(Cardinality(RequiredValidLayout), Cardinality(RequiredLayout))

\* a required text that is found beside an optional text that is not: the
\* text ratio is 1.0
C2_Witness ==
  /\ LocalReturned
  /\ \E n, k \in DOMAIN validationData.text_validations :
       /\ validationData.text_validations[n].required
       /\ validationData.text_validations[n].found
       /\ ~validationData.text_validations[k].required
       /\ ~validationData.text_validations[k].found
  /\ validationData.compliance.text = FOne

\* ---------------------------------------------------------------------------
\* C3
\* ---------------------------------------------------------------------------
\* C3: a category without required items has ratio exactly 1.0, whatever
\* optional items it holds; with no required item in any category, overall is
\* 1.0 and passed is true.
C3_VacuousCategory ==
  LocalReturned =>
    /\ RequiredCount(validationData.text_validations) = 0 =>
         validationData.compliance.text = FOne
    /\ RequiredCount(validationData.symbol_validations) = 0 =>
         validationData.compliance.symbol = FOne
    /\ RequiredLayout = {} => validationData.compliance.layout = FOne
    /\ ( /\ RequiredCount(validationData.text_validations) = 0
         /\ RequiredCount(validationData.symbol_validations) = 0
         /\ RequiredLayout = {} ) =>
         /\ validationData.compliance.overall = FOne
         /\ validationData.passed
         /\ validationResults.is_compliant

\* no required item anywhere, and an optional text and an optional symbol that
\* are not found
C3_Witness ==
  /\ LocalReturned
  /\ RequiredCount(validationData.text_validations) = 0
  /\ RequiredCount(validationData.symbol_validations) = 0
  /\ RequiredLayout = {}
  /\ \E n \in DOMAIN validationData.text_validations :
       ~validationData.text_validations[n].found
  /\ \E n \in DOMAIN validationData.symbol_validations :
       ~validationData.symbol_validations[n].found
  /\ validationData.compliance.overall = FOne
  /\ validationData.passed

\* ---------------------------------------------------------------------------
\* C4
\* ---------------------------------------------------------------------------
\* C4: overall is 0.4 * ratio(text) + 0.4 * ratio(symbol) + 0.2 * ratio(layout)
\* in exact arithmetic, read in favour of the code: overall is the Number
\* nearest to that exact value; and 0 <= overall <= 1.
C4_OverallIsExactWeightedSum ==
  LocalReturned =>
    /\ validationData.compliance.overall = FDiv(ExactOverall[1], ExactOverall[2])
    /\ FGeq(validationData.compliance.overall, FZero)
    /\ FGeq(FOne, validationData.compliance.overall)

\* ---------------------------------------------------------------------------
\* C5
\* ---------------------------------------------------------------------------
\* C5: passed is true exactly when overall, the weighted sum of the category
\* ratios, is at least 0.9: an overall of exactly 0.9 passes.
C5_PassedIffOverallAtLeastNineTenths ==
  LocalReturned =>
    (validationData.passed <=> (10 * ExactOverall[1] >= 9 * ExactOverall[2]))

\* ---------------------------------------------------------------------------
\* C6
\* ---------------------------------------------------------------------------
ScenarioB ==
  /\ legalTerms = [ required_texts      |-> <<>>,
                    required_symbols    |-> <<SymbolReq("ce_mark", TRUE)>>,
                    layout_requirements |-> <<>> ]
  /\ textResults = <<>>
  /\ symbolResults = <<Symbol("logo")>>

\* C6: one required symbol requirement "ce_mark" against the symbol evidence
\* "logo" alone: found and valid are false, the symbol ratio is 0.0, the text
\* and layout ratios are 1.0, overall is 0.6 and passed is false.
C6_ScenarioB ==
  (LocalReturned /\ ScenarioB) =>
    /\ ~validationData.symbol_validations[1].found
    /\ ~validationResults.symbol_validations[1].found
    /\ ~validationResults.symbol_validations[1].valid
    /\ validationData.compliance.symbol = FZero
    /\ validationData.compliance.text = FOne
    /\ validationData.compliance.layout = FOne
    /\ validationData.compliance.overall = FDiv(3, 5)
    /\ ~validationData.passed

\* ---------------------------------------------------------------------------
\* C7
\* ---------------------------------------------------------------------------
\* the target of the text requirement n
TextTarget(n) ==
  orElse(legalTerms.required_texts[n].pattern, legalTerms.required_texts[n].description)

\* some region's text, lowercased, contains the lowercased target
InSomeRegion(target) ==
  \E i \in DOMAIN textResults :
    /\ textResults[i].text # ""
    /\ includes(toLowerCase(textResults[i].text), toLowerCase(target))

\* C7: a text requirement whose non-empty target, lowercased, is a substring of
\* a lowercased text evidence item is found, whatever the letter case of either
\* and whatever the symbol evidence; if it is the only required text
\* requirement, the text ratio is 1.0.
C7_SubstringFoundInAnyCase ==
  LocalReturned =>
    \A n \in DOMAIN legalTerms.required_texts :
      (TextTarget(n) # "" /\ InSomeRegion(TextTarget(n))) =>
        /\ validationData.text_validations[n].found
        /\ validationResults.term_validations[n].found
        /\ ( /\ legalTerms.required_texts[n].required
             /\ \A k \in DOMAIN legalTerms.required_texts :
                  k # n => ~legalTerms.required_texts[k].required ) =>
             validationData.compliance.text = FOne

\* scenario A, with a symbol detected as well
C7_Witness ==
  /\ LocalReturned
  /\ legalTerms.required_texts = <<TextReq("CHOKING HAZARD", TRUE)>>
  /\ textResults = <<Region("choking hazard - small parts")>>
  /\ symbolResults = <<Symbol("logo")>>
  /\ validationData.text_validations[1].found
  /\ validationResults.term_validations[1].valid
  /\ validationData.compliance.text = FOne

\* ---------------------------------------------------------------------------
\* C8
\* ---------------------------------------------------------------------------
\* C8: a symbol requirement "ce_mark" is found when the symbol evidence is the
\* single class "ce", when it is "ce mark" and when it is "ce_mark".
C8_CeMarkSynonyms ==
  LocalReturned =>
    \A n \in DOMAIN legalTerms.required_symbols :
      ( /\ legalTerms.required_symbols[n].class = "ce_mark"
        /\ Len(symbolResults) = 1
        /\ toLowerCase(symbolResults[1].class) \in {"ce", "ce mark", "ce_mark"} ) =>
        validationData.symbol_validations[n].found

\* ---------------------------------------------------------------------------
\* C9
\* ---------------------------------------------------------------------------
\* words joined by single spaces: no other separator, no space first or last,
\* no two spaces in a row
SpaceJoined(name) ==
  /\ name # ""
  /\ \A i \in 1..Len(name) : CharAt(name, i) \notin {"_", "\t", "\n"}
  /\ CharAt(name, 1) # " " /\ CharAt(name, Len(name)) # " "
  /\ \A i \in 1..(Len(name) - 1) : ~(CharAt(name, i) = " " /\ CharAt(name, i + 1) = " ")

\* the same words joined by underscores
RECURSIVE UnderscoreJoined(_)
UnderscoreJoined(name) ==
  IF name = "" THEN ""
  ELSE (IF CharAt(name, 1) = " " THEN "_" ELSE CharAt(name, 1))
         \o UnderscoreJoined(SubSeq(name, 2, Len(name)))

\* one is the space-joined and the other the underscore-joined spelling
TwoSpellings(a, b) ==
  \/ SpaceJoined(a) /\ b = UnderscoreJoined(a)
  \/ SpaceJoined(b) /\ a = UnderscoreJoined(b)

\* C9: symbol matching does not depend on the separator: a target in the
\* space-joined spelling is found against evidence in the underscore-joined
\* spelling of the same name, and the other way round.
C9_SeparatorAgnostic ==
  LocalReturned =>
    \A n \in DOMAIN legalTerms.required_symbols :
      (\E i \in DOMAIN symbolResults :
         TwoSpellings(toLowerCase(legalTerms.required_symbols[n].class),
                      toLowerCase(symbolResults[i].class))) =>
        validationData.symbol_validations[n].found

\* both directions in one run, each against the other spelling only
C9_Witness ==
  /\ LocalReturned
  /\ legalTerms.required_symbols = <<SymbolReq("age_grade", TRUE), SymbolReq("ce ul", TRUE)>>
  /\ symbolResults = <<Symbol("Age Grade"), Symbol("CE_UL")>>
  /\ validationData.symbol_validations[1].found
  /\ validationData.symbol_validations[2].found

\* ---------------------------------------------------------------------------
\* C10
\* ---------------------------------------------------------------------------
\* steps 1-3 of the matcher fail for the lowercased target
ExactStepsFail(target) ==
  /\ ~\E i \in DOMAIN textResults :
        textResults[i].text # "" /\ includes(toLowerCase(textResults[i].text), target)
  /\ \A key \in {target, replace(target, WhiteSpace, "_"),
                  replace(target, UnderscoreHyphen, " ")} :
        key \notin detectedSymbolClasses(symbolResults) \cup InheritedKeys

\* the target words longer than 2 characters that occur in the evidence: among
\* the source keywords or inside a symbol class
OccurringWords(target, sourceKeywords) ==
  { i \in DOMAIN longWords(target) :
      \/ longWords(target)[i] \in sourceKeywords
      \/ \E key \in detectedSymbolClasses(symbolResults) :
           includes(key, longWords(target)[i]) }

\* found is exactly matched / total >= 0.4
FoundByRatio(found, target, sourceKeywords) ==
  found <=> /\ Len(longWords(target)) > 0
            /\ 5 * Cardinality(OccurringWords(target, sourceKeywords))
                 >= 2 * Len(longWords(target))

\* C10: when steps 1-3 fail, the keyword fallback finds the target exactly when
\* (target words longer than 2 characters that occur in the evidence) / (target
\* words longer than 2 characters) >= 0.4: 2 of 4 is found, 1 of 4 is not,
\* however many evidence items hold that one word.
C10_KeywordFallbackRatio ==
  LocalReturned =>
    /\ \A n \in DOMAIN legalTerms.required_texts :
         LET target == toLowerCase(TextTarget(n))
         IN  (target # "" /\ ExactStepsFail(target)) =>
               FoundByRatio(validationData.text_validations[n].found, target,
                            textKeywords(textResults))
    /\ \A n \in DOMAIN legalTerms.required_symbols :
         LET class  == orElse(legalTerms.required_symbols[n].class,
                              legalTerms.required_symbols[n].description)
             target == toLowerCase(class)
         IN  ( /\ target # ""
               /\ ~directSymbolMatch(class, symbolResults)
               /\ ExactStepsFail(target) ) =>
               FoundByRatio(validationData.symbol_validations[n].found, target,
                            symbolKeywords(symbolResults))

\* ---------------------------------------------------------------------------
\* C11
\* ---------------------------------------------------------------------------
\* the target of the symbol requirement n
SymbolTarget(n) ==
  orElse(legalTerms.required_symbols[n].class, legalTerms.required_symbols[n].description)

\* C11: a requirement whose match target is empty is not found, whatever the
\* evidence: a text requirement and a symbol requirement alike, also when a
\* detected symbol has an empty class name.
C11_EmptyTargetNeverFound ==
  LocalReturned =>
    /\ \A n \in DOMAIN legalTerms.required_texts :
         TextTarget(n) = "" => ~validationData.text_validations[n].found
    /\ \A n \in DOMAIN legalTerms.required_symbols :
         SymbolTarget(n) = "" => ~validationData.symbol_validations[n].found

\* ---------------------------------------------------------------------------
\* C12
\* ---------------------------------------------------------------------------
\* C12: with no text evidence and no symbol evidence, no text requirement and
\* no symbol requirement is found, so every required one is reported invalid.
C12_EmptyEvidenceNothingFound ==
  (LocalReturned /\ textResults = <<>> /\ symbolResults = <<>>) =>
    /\ \A n \in DOMAIN validationData.text_validations :
         /\ ~validationData.text_validations[n].found
         /\ validationData.text_validations[n].required =>
              ~validationResults.term_validations[n].valid
    /\ \A n \in DOMAIN validationData.symbol_validations :
         /\ ~validationData.symbol_validations[n].found
         /\ validationData.symbol_validations[n].required =>
              ~validationResults.symbol_validations[n].valid

\* ---------------------------------------------------------------------------
\* C13
\* ---------------------------------------------------------------------------
SameArguments(r, s) ==
  /\ history[r].texts = history[s].texts
  /\ history[r].symbols = history[s].symbols
  /\ history[r].legal = history[s].legal

IsPlaceholder(n) ==
  textResults[n].text =
    "Region " \o (IF textResults[n].hasId THEN ToString(textResults[n].id) ELSE ToString(n))

\* the text evidence with the placeholder labels emptied
WithoutPlaceholders ==
  [ n \in DOMAIN textResults |->
      IF IsPlaceholder(n) THEN [textResults[n] EXCEPT !.text = ""] ELSE textResults[n] ]

\* C14: the label "Region <n>" of a region without extractable text satisfies no
\* requirement: whatever is found is found as well when the placeholder labels
\* carry no text at all.
C14_PlaceholderNeverMatches ==
  LocalReturned =>
    LET bare == performLocalValidation(WithoutPlaceholders, symbolResults, legalTerms)
    IN  /\ \A n \in DOMAIN validationData.text_validations :
             validationData.text_validations[n].found => bare.text_validations[n].found
        /\ \A n \in DOMAIN validationData.symbol_validations :
             validationData.symbol_validations[n].found => bare.symbol_validations[n].found

\* ---------------------------------------------------------------------------
\* C15
\* ---------------------------------------------------------------------------
\* the lowercased target equals a symbol evidence item, is a substring of one
\* or contains one
SymbolContainment(target) ==
  \E i \in DOMAIN symbolResults :
    LET item == toLowerCase(symbolResults[i].class)
    IN  /\ item # ""
        /\ (includes(item, target) \/ includes(target, item))

\* C15: a symbol requirement whose lowercased target equals a symbol evidence
\* item, is a substring of one or contains one is found, whatever the length
\* of the target: "ce" is found against the evidence "ce_mark".
C15_SymbolContainmentFound ==
  LocalReturned =>
    \A n \in DOMAIN legalTerms.required_symbols :
      (SymbolTarget(n) # "" /\ SymbolContainment(toLowerCase(SymbolTarget(n)))) =>
        validationData.symbol_validations[n].found

\* ---------------------------------------------------------------------------
\* C16
\* ---------------------------------------------------------------------------
\* the builders that have resolved
Built == { b \in DOMAIN parsed : parsed[b].settled = "resolved" }

\* the value of row n under a column the builders have found
Value(n, c) == cell(legalTermFile.rows[n], columns(legalTermFile.rows), c)

\* the type value names one of the three kinds
TypeDecides(n) ==
  \E kind \in {"text", "symbol", "layout"} : includes(toLowerCase(Value(n, "type")), kind)

\* the symbol value is not empty and is no placeholder
UsableSymbol(n) == Value(n, "symbol") \notin {"", "#UNKNOWN", "undefined", "null"}

\* the requirements of a list that row n produced: their ids end in its index
FromRow(list, prefixes, n) ==
  { k \in DOMAIN list : \E p \in prefixes : list[k].id = p \o ToString(n - 1) }

\* C16: the classification rules are tried in order: a row whose type value
\* names none of text, symbol and layout (it may be empty or, say, "other") and
\* whose symbol value is usable becomes exactly one symbol requirement and no
\* text requirement.
C16_SymbolRuleAfterTypeRule ==
  \A b \in Built :
    \A n \in DOMAIN legalTermFile.rows :
      (~TypeDecides(n) /\ UsableSymbol(n)) =>
        /\ Cardinality(FromRow(parsed[b].legalTerms.required_symbols, {"symbol_"}, n)) = 1
        /\ FromRow(parsed[b].legalTerms.required_texts, {"text_"}, n) = {}

\* ---------------------------------------------------------------------------
\* C17
\* ---------------------------------------------------------------------------
\* the item text holds one of the warning and compliance keywords, or the
\* description one of the words the builder of App.jsx looks for in it
Heuristic(n) ==
  \/ \E word \in {"warning", "trademark", "country", "origin", "age", "grade"} :
       includes(toLowerCase(Value(n, "item")), word)
  \/ \E word \in {"text", "statement", "warning"} :
       includes(toLowerCase(Value(n, "description")), word)

\* C17: a row without a usable type value, without a usable symbol value and
\* without a keyword produces no requirement in any of the three lists, and
\* the builder resolves: the other rows are processed.
C17_RowWithoutKeywordDropped ==
  \A b \in DOMAIN parsed :
    legalTermFile.readable =>
      /\ parsed[b].settled = "resolved"
      /\ \A n \in DOMAIN legalTermFile.rows :
           (~TypeDecides(n) /\ ~UsableSymbol(n) /\ ~Heuristic(n)) =>
             /\ FromRow(parsed[b].legalTerms.required_texts, {"text_"}, n) = {}
             /\ FromRow(parsed[b].legalTerms.required_symbols, {"symbol_"}, n) = {}
             /\ FromRow(parsed[b].legalTerms.layout_requirements,
                        {"layout_", "layout_symbol_"}, n) = {}

\* ---------------------------------------------------------------------------
\* C18
\* ---------------------------------------------------------------------------
\* the tree the builder of legalValidationService.js works on
Tree == IF legalTermFile.reachable THEN legalTermFile.data ELSE FallbackData

\* a sub-property that describes an expected phrase: a statement or a phrase
DescribesPhrase(p) ==
  p.req_desc # "" /\ (includes(p.req_name, "statement") \/ includes(p.req_name, "phrase"))

\* the match target of a named node: its expected phrase, or else its name
ExpectedTarget(req) ==
  LET phrases == IF req.hasProperties THEN SelectSeq(req.req_properties, DescribesPhrase)
                 ELSE <<>>
  IN  IF phrases # <<>> THEN phrases[1].req_desc ELSE req.name

Named(nodes) == SelectSeq(nodes, LAMBDA req : req.name # "")

\* C18: every named requirement node of the tree yields exactly one
\* requirement, in input order; the target of a text requirement is the
\* expected phrase of the node when a sub-property describes one and the node
\* name otherwise, never the description of another sub-property such as a
\* text height; the target of a symbol requirement is the node name. (Trees
\* whose names are all strings.)
C18_OneRequirementPerNamedNode ==
  ( /\ "legalValidationService" \in DOMAIN parsed
    /\ Tree.hasResult
    /\ \A n \in DOMAIN Tree.symbol_requirement : Tree.symbol_requirement[n].nameIsString ) =>
    LET built   == parsed["legalValidationService"].legalTerms
        texts   == IF Tree.textIsArray THEN Named(Tree.text_requirement) ELSE <<>>
        symbols == IF Tree.symbolIsArray THEN Named(Tree.symbol_requirement) ELSE <<>>
    IN  /\ Len(built.required_texts) = Len(texts)
        /\ \A n \in DOMAIN texts :
             n \in DOMAIN built.required_texts =>
               /\ built.required_texts[n].description = texts[n].name
               /\ built.required_texts[n].pattern = ExpectedTarget(texts[n])
        /\ Len(built.required_symbols) = Len(symbols)
        /\ \A n \in DOMAIN symbols :
             n \in DOMAIN built.required_symbols =>
               /\ built.required_symbols[n].description = symbols[n].name
               /\ built.required_symbols[n].class = toLowerCase(symbols[n].name)

\* ---------------------------------------------------------------------------
\* C19
\* ---------------------------------------------------------------------------
\* the parser cannot be reached, its answer has not the expected shape, or a
\* node makes the builder throw part-way
Malformed ==
  \/ ~legalTermFile.reachable
  \/ ~legalTermFile.data.hasResult
  \/ \E n \in DOMAIN legalTermFile.data.symbol_requirement :
       ~legalTermFile.data.symbol_requirement[n].nameIsString

\* C19: on a malformed requirement source the builder neither throws nor
\* rejects: it resolves with a requirement set whose three lists are empty.
C19_MalformedSourceGivesEmptySet ==
  \A b \in DOMAIN parsed :
    Malformed =>
      /\ parsed[b].settled = "resolved"
      /\ parsed[b].legalTerms.required_texts = <<>>
      /\ parsed[b].legalTerms.required_symbols = <<>>
      /\ parsed[b].legalTerms.layout_requirements = <<>>

\* ---------------------------------------------------------------------------
\* C20
\* ---------------------------------------------------------------------------
\* the requirement file is there and can be turned into requirements
UsableFile ==
  legalTermFile.uploaded /\ legalTermFile.readable /\ legalTermFile.reachable

\* a detection of text has left regions; a detection of symbols has left symbols
TextEvidence == detected.text # "null" /\ Len(textResults) > 0
SymbolEvidence == detected.symbol # "null" /\ Len(symbolResults) > 0

\* text regions with no symbol result, which is null or holds nothing
TextOnly == TextEvidence /\ ~SymbolEvidence
\* symbols with no text result
SymbolOnly == SymbolEvidence /\ ~TextEvidence

\* C20: with a usable requirement file and only one of the two evidence
\* sources present, a validation handler that has returned has set no error and
\* has produced a report with one verdict per requirement: the handler of App
\* for text only and for symbols only, the handler of IntegratedPage for a text
\* result whose symbol result is missing.
C20_OneEvidenceSourceStillValidates ==
  /\ ("validateAgainstLegalTerms" \in returned /\ UsableFile /\ (TextOnly \/ SymbolOnly)) =>
       /\ error.App = ""
       /\ "local" \in returned
       /\ Len(validationResults.term_validations)
            + Len(validationResults.symbol_validations) = Len(legalTermFile.rows)
  /\ ("handleValidate" \in returned /\ UsableFile /\ TextOnly) =>
       /\ error.IntegratedPage = ""
       /\ "backend" \in returned
       /\ Len(validationResults.text_validations) = Len(legalTermFile.data.text_requirement)
       /\ Len(validationResults.symbol_validations) = Len(legalTermFile.data.symbol_requirement)


\* ---------------------------------------------------------------------------
\* C21
\* ---------------------------------------------------------------------------
\* the two messages of the report
MetMessage == "All legal requirements are met."

NotMetMessage == "Some legal requirements are not met."

\* C21: the report App stores is a projection of what performLocalValidation
\* returned: is_compliant is passed, the message is one fixed string when
\* passed and another when not, and the term, symbol and layout lists hold one
\* record per verdict of the category, in the order of the verdicts, with
\* description, required and found (rule and valid for layout) copied.
C21_ReportIsProjection ==
  LocalReturned =>
    /\ validationResults.is_compliant = validationData.passed
    /\ validationResults.compliance_message
         = (IF validationData.passed THEN MetMessage ELSE NotMetMessage)
    /\ MetMessage # NotMetMessage
    /\ Len(validationResults.term_validations) = Len(validationData.text_validations)
    /\ \A n \in DOMAIN validationData.text_validations :
         n \in DOMAIN validationResults.term_validations =>
           /\ validationResults.term_validations[n].term
                = validationData.text_validations[n].description
           /\ validationResults.term_validations[n].required
                = validationData.text_validations[n].required
           /\ validationResults.term_validations[n].found
                = validationData.text_validations[n].found
    /\ Len(validationResults.symbol_validations) = Len(validationData.symbol_validations)
    /\ \A n \in DOMAIN validationData.symbol_validations :
         n \in DOMAIN validationResults.symbol_validations =>
           /\ validationResults.symbol_validations[n].symbol
                = validationData.symbol_validations[n].description
           /\ validationResults.symbol_validations[n].required
                = validationData.symbol_validations[n].required
           /\ validationResults.symbol_validations[n].found
                = validationData.symbol_validations[n].found
    /\ Len(validationResults.layout_validations) = Len(validationData.layout_validations)
    /\ \A n \in DOMAIN validationData.layout_validations :
         n \in DOMAIN validationResults.layout_validations =>
           /\ validationResults.layout_validations[n].rule
                = validationData.layout_validations[n].rule
           /\ validationResults.layout_validations[n].description
                = validationData.layout_validations[n].description
           /\ validationResults.layout_validations[n].valid
                = validationData.layout_validations[n].valid

\* a report with an optional text verdict that was not found next to a
\* required one
C21_Witness ==
  /\ LocalReturned
  /\ Len(validationData.text_validations) = 2
  /\ validationData.text_validations[1].required
  /\ ~validationData.text_validations[2].required
  /\ ~validationData.text_validations[2].found

\* ---------------------------------------------------------------------------
\* C22
\* ---------------------------------------------------------------------------
\* layout verdicts with these valid flags, as the aggregation is given them
LayoutVerdicts(flags) ==
  [ n \in DOMAIN flags |->
      [id |-> "layout_" \o ToString(n - 1), description |-> "", rule |-> "position",
       valid |-> flags[n]] ]

ValidCount(flags) == Cardinality({ n \in DOMAIN flags : flags[n] })

\* C22: every layout verdict of the local validation and of symbolService.js is
\* valid whatever the evidence, so the layout ratio of a run is 1.0 and its
\* overall score is at least 0.2; the ratio is computed from the valid flags:
\* on verdicts of which k out of n > 0 are valid it is k / n.
C22_LayoutStubbedButCounted ==
  /\ LocalReturned =>
       /\ \A n \in DOMAIN validationData.layout_validations :
            validationData.layout_validations[n].valid
       /\ Len(validationData.layout_validations) = Len(legalTerms.layout_requirements)
       /\ validationData.compliance.layout = FOne
       /\ FGeq(validationData.compliance.overall, FDiv(1, 5))
  /\ ServiceReturned =>
       /\ \A n \in DOMAIN svcResults.layout_validations :
            svcResults.layout_validations[n].valid
       /\ Len(svcResults.layout_validations) = Len(legalTerms.layout_requirements)
  /\ \A flags \in SeqsUpTo(BOOLEAN, MaxRows + 1) :
       flags # <<>> =>
         layoutCompliance(LayoutVerdicts(flags)) = FDiv(ValidCount(flags), Len(flags))

\* both validations have run on a requirement set with a layout requirement
\* and a required text the package lacks
C22_Witness ==
  /\ LocalReturned
  /\ ServiceReturned
  /\ Len(validationData.layout_validations) > 0
  /\ Len(svcResults.layout_validations) > 0
  /\ \E n \in DOMAIN validationData.text_validations :
       /\ validationData.text_validations[n].required
       /\ ~validationData.text_validations[n].found
  /\ validationData.compliance.text = FZero

\* ---------------------------------------------------------------------------
\* C26
\* ---------------------------------------------------------------------------
\* the keys of the endpoints of a backend, and the path of an endpoint, as the
\* module defines them
KeysOf(url) == { key \in DOMAIN InitialEndpoints : startsWith(InitialEndpoints[key], url) }

OriginalPath(key, url) ==
  SubSeq(InitialEndpoints[key], Len(url) + 1, Len(InitialEndpoints[key]))

\* the URL most recently supplied to a function, the exported one before any call
RECURSIVE LastSupplied(_, _, _)
LastSupplied(calls, call, url) ==
  IF calls = <<>> THEN url
  ELSE IF calls[Len(calls)].call = call THEN calls[Len(calls)].newUrl
  ELSE LastSupplied(SubSeq(calls, 1, Len(calls) - 1), call, url)

\* C26: after any sequence of calls of updateTextApiUrl and updateSymbolApiUrl,
\* every endpoint of the text backend is the text URL most recently supplied
\* followed by its original path, and every endpoint of the symbol backend the
\* symbol URL most recently supplied followed by its original path.
C26_EndpointsFollowLastUpdate ==
  /\ \A key \in KeysOf(TEXT_API_URL) :
       API_ENDPOINTS[key] = LastSupplied(history, "updateTextApiUrl", TEXT_API_URL)
                              \o OriginalPath(key, TEXT_API_URL)
  /\ \A key \in KeysOf(SYMBOL_API_URL) :
       API_ENDPOINTS[key] = LastSupplied(history, "updateSymbolApiUrl", SYMBOL_API_URL)
                              \o OriginalPath(key, SYMBOL_API_URL)

\* ---------------------------------------------------------------------------
\* C24
\* ---------------------------------------------------------------------------
\* the lists of legalTerms, empty for null, undefined and a missing list
TextsOf(legal) ==
  IF legal.is = "object" /\ legal.hasTexts THEN legal.required_texts ELSE <<>>

SymbolsOf(legal) ==
  IF legal.is = "object" /\ legal.hasSymbols THEN legal.required_symbols ELSE <<>>

\* verdict n is item n with valid = false and the message attached
FailedCopies(verdicts, items, message) ==
  /\ Len(verdicts) = Len(items)
  /\ \A n \in DOMAIN items :
       n \in DOMAIN verdicts =>
         /\ verdicts[n].id = items[n].id
         /\ verdicts[n].description = items[n].description
         /\ verdicts[n].required = items[n].required
         /\ verdicts[n].valid = FALSE
         /\ verdicts[n].error = message

\* C24: when the verification request fails, the backend-based
\* validateAgainstLegalTerms resolves with a result in which every item of
\* required_texts and of required_symbols appears once, in order, with
\* valid = false and the message of the error, and layout_validations is empty;
\* with legalTerms null or missing the three lists are empty.
C24_FailedRequestGivesFallback ==
  "backend" \in returned =>
    /\ FailedCopies(svcResults.text_validations, TextsOf(legalTerms),
                    requestError(history[1]))
    /\ \A n \in DOMAIN svcResults.text_validations :
         svcResults.text_validations[n].pattern = legalTerms.required_texts[n].pattern
    /\ FailedCopies(svcResults.symbol_validations, SymbolsOf(legalTerms),
                    requestError(history[1]))
    /\ \A n \in DOMAIN svcResults.symbol_validations :
         svcResults.symbol_validations[n].class = legalTerms.required_symbols[n].class
    /\ svcResults.layout_validations = <<>>
    /\ legalTerms.is # "object" =>
         svcResults.text_validations = <<>> /\ svcResults.symbol_validations = <<>>

\* a failed request on a requirement set with an optional text and a required
\* symbol
C24_Witness ==
  /\ "backend" \in returned
  /\ history[1].kind = "status"
  /\ Len(svcResults.text_validations) = 1
  /\ ~svcResults.text_validations[1].required
  /\ Len(svcResults.symbol_validations) = 1
  /\ svcResults.symbol_validations[1].required


\* ---------------------------------------------------------------------------
\* C28
\* ---------------------------------------------------------------------------
RECURSIVE IsSubSeq(_, _)
\* the items of a, in their order, are among the items of b
IsSubSeq(a, b) ==
  IF a = <<>> THEN TRUE
  ELSE IF b = <<>> THEN FALSE
  ELSE IF Head(a) = Head(b) THEN IsSubSeq(Tail(a), Tail(b))
  ELSE IsSubSeq(a, Tail(b))

\* run s had the requirement set of run r and all its evidence, and more
MoreEvidence(r, s) ==
  /\ history[r].legal = history[s].legal
  /\ IsSubSeq(history[r].texts, history[s].texts)
  /\ IsSubSeq(history[r].symbols, history[s].symbols)
  /\ Len(history[r].texts) + Len(history[r].symbols)
       < Len(history[s].texts) + Len(history[s].symbols)

\* C28: local validation is monotone in the evidence: of two runs on the same
\* requirement set of which the second has the evidence of the first and more,
\* the second finds every requirement the first found, none of its ratios nor
\* its overall score is lower, and it has passed if the first has.
C28_MonotoneInEvidence ==
  \A r, s \in DOMAIN history :
    MoreEvidence(r, s) =>
      /\ \A n \in DOMAIN history[r].text : history[r].text[n] => history[s].text[n]
      /\ \A n \in DOMAIN history[r].symbol : history[r].symbol[n] => history[s].symbol[n]
      /\ FGeq(history[s].compliance.text, history[r].compliance.text)
      /\ FGeq(history[s].compliance.symbol, history[r].compliance.symbol)
      /\ FGeq(history[s].compliance.layout, history[r].compliance.layout)
      /\ FGeq(history[s].compliance.overall, history[r].compliance.overall)
      /\ history[r].passed => history[s].passed

\* three runs on growing evidence: the first finds nothing, the second a
\* requirement by its keywords, the third passes
C28_Witness ==
  /\ Len(history) = 3
  /\ MoreEvidence(1, 2)
  /\ MoreEvidence(2, 3)
  /\ \A n \in DOMAIN history[1].text : ~history[1].text[n]
  /\ \E n \in DOMAIN history[2].text : history[2].text[n]
  /\ ~history[2].passed
  /\ history[3].passed

\* ---------------------------------------------------------------------------
\* C23
\* ---------------------------------------------------------------------------
\* an analysis has returned whose text detection resolved and whose symbol
\* detection rejected
SymbolBackendFailed ==
  /\ "handleAnalyzeImage" \in returned
  /\ "detected" \notin returned
  /\ detected.text # "null"

\* C23: when detectSymbols fails while the text backend works, the analysis
\* ends with text results, with a symbol result set and without an error.
C23_SymbolFailureFallsBack ==
  SymbolBackendFailed =>
    /\ detected.text = "object"
    /\ detected.symbol = "array"
    /\ error[page] = ""

\* ---------------------------------------------------------------------------
\* C27
\* ---------------------------------------------------------------------------
\* the stored regions and the stored symbols are the ones of this image
RegionsOf(file) == textResults = DetectedRegions(file)

LabelsOf(file) == processedSymbols(symbolResults) = processedSymbols(DetectedLabels(file))

\* C27: the stored detection results are results of the selected image, and a
\* preview is shown only while a file is selected.
C27_ResultsBelongToSelectedImage ==
  /\ Len(textResults) > 0 => selectedFile # "" /\ RegionsOf(selectedFile)
  /\ Len(symbolResults) > 0 => selectedFile # "" /\ LabelsOf(selectedFile)
  /\ previewUrl # "" => selectedFile # ""

\* ---------------------------------------------------------------------------
\* C25
\* ---------------------------------------------------------------------------
\* a submit has returned whose two detections succeeded, with a requirement
\* file uploaded that can be read
SubmitDetected ==
  /\ page = "App"
  /\ {"handleSubmit", "detected"} \subseteq returned
  /\ UsableFile

\* the report of the local validation on what the component state holds
FreshReport ==
  transformedData(
    performLocalValidation(IF detected.text = "array" THEN textResults ELSE <<>>,
                           processedSymbols(symbolResults),
                           processLegalTermFile(legalTermFile).legalTerms))

\* C25: a submit whose two detections succeeded, with a requirement file
\* uploaded, ends without an error and with the report of the validation of
\* the detections this submit stored.
C25_SubmitValidatesFreshResults ==
  SubmitDetected =>
    /\ error.App = ""
    /\ validationResults # Null
    /\ validationResults = FreshReport

\* ---------------------------------------------------------------------------
\* C30
\* ---------------------------------------------------------------------------
\* the validations of App that are in flight
Validations ==
  Calls("validateAgainstLegalTerms", "processLegalTermFile")
    \cup Calls("handleSubmit", "validateAgainstLegalTerms")

\* a region of the stored result the validation was called on contains the
\* pattern, in any letter case
StoredRegionContains(task, pattern) ==
  /\ task.closure.detected.text # "null"
  /\ \E i \in DOMAIN task.closure.textResults :
       includes(toLowerCase(task.closure.textResults[i].text), toLowerCase(pattern))

StartRefused == "No detection results available. Please detect text and symbols first."

\* C30: a validation of App that ends with a report has found every text
\* requirement whose pattern a region of the stored detection result contains,
\* and no validation is refused for want of detection results while the stored
\* result holds text regions.
C30_StoredTextIsEvidence ==
  [][ /\ \A task \in Validations :
           (task \notin pending' /\ "local" \in returned') =>
             LET required == processLegalTermFile(task.closure.legalTermFile)
                               .legalTerms.required_texts
             IN  \A n \in DOMAIN required :
                   (required[n].pattern # "" /\ StoredRegionContains(task, required[n].pattern))
                     => validationResults'.term_validations[n].found
      /\ (page = "App" /\ TextEvidence /\ error'.App # error.App)
           => error'.App # StartRefused ]_<<returned, error>>

\* ---------------------------------------------------------------------------
\* C29
\* ---------------------------------------------------------------------------
\* C29: provided every awaited call settles, a loading flag that a handler has
\* set is cleared again: isLoading after handleSubmit, handleAnalyzeImage,
\* handleCompletePipeline, handleValidate and handleVerifyRequirements,
\* isValidating after validateAgainstLegalTerms of App.
C29_LoadingFlagCleared ==
  /\ isLoading ~> ~isLoading
  /\ isValidating ~> ~isValidating

\* a run has ended in the catch block of its handler, with the flags cleared
C29_Witness ==
  /\ returned # {}
  /\ "detected" \notin returned
  /\ error[page] \in {SubmitError, stageError("")}
  /\ ~isLoading /\ ~isValidating
  /\ Calls("handleSubmit", "textResponse") = {}

=============================================================================
